---- MODULE Spec2Model ----
(***************************************************************************)
(* A model of the factory game's production/logistics core:                *)
(*   - materials.rs : ItemStack, Inventory (push / remove / transfer /     *)
(*                    transfer_first / pop / contains) and Reaction        *)
(*   - blocks.rs    : Output::contains / transfer / transfer_first and the *)
(*                    tick systems (furnace, conveyor, grabber)            *)
(*   - grid.rs      : hover / click events and placement                   *)
(* Quantities are u32: additions and subtractions keep that width.  With   *)
(* overflow checks compiled in (a debug build) an overflowing operation    *)
(* panics, without them (a release build) it wraps.                        *)
(***************************************************************************)
EXTENDS Integers, Sequences, FiniteSets, TLC

\* ------------------------------------------------------------- bounds
\* operations applied to the two inventories of Spec
MaxOps == 3
\* longest inventory (Vec<ItemStack>) the model builds
MaxStacks == 3
\* frames simulated
MaxFrames == 3
\* blocks placed on the grid
MaxBlocks == 2

\* ---------------------------------------------------------- item kinds
\* pub quantity: u32.  TLC's integers are 32-bit signed, so a u32 value v is held
\* in its two's complement reading: v itself below 2^31, v - 2^32 from 2^31 on.
I32Max == 2147483647
\* u32::MAX
MaxU32 == -1

\* a < b as u32
ULt(a, b) == IF (a < 0) = (b < 0) THEN a < b ELSE b < 0

\* a + b as a release build computes it (wrapping at 2^32)
WrapAdd(a, b) ==
  IF a >= 0 /\ b >= 0 /\ a > I32Max - b THEN (a - I32Max - 1) + (b - I32Max - 1)
  ELSE IF a < 0 /\ b < 0 /\ a < (-I32Max - 1) - b THEN (a + I32Max + 1) + (b + I32Max + 1)
  ELSE a + b

\* a - b as a release build computes it
WrapSub(a, b) ==
  IF a >= 0 /\ b < 0 /\ a > I32Max + b THEN (a - I32Max - 1) - (b + I32Max + 1)
  ELSE IF a < 0 /\ b >= 0 /\ a < (-I32Max - 1) + b THEN (a + I32Max + 1) - (b - I32Max - 1)
  ELSE a - b

\* a + b does not fit a u32: a debug build panics "attempt to add with overflow"
AddOverflows(a, b) == ULt(WrapAdd(a, b), a)
\* a - b is negative: a debug build panics "attempt to subtract with overflow"
SubOverflows(a, b) == ULt(a, b)

\* ItemStackType values used: Element(Iron|Gold|Hydrogen|Copper, Solid)
Kinds == {"Iron", "Gold", "Hydrogen"}

DEFAULT_STATIC_LIMIT == 64
HYDROGEN_SOLID_LIMIT == 100

\* ITEMSTACKTYPE_QUANTITY_LIMITS.get(self).unwrap_or(&DEFAULT_STATIC_LIMIT)
quantity_limit(k) == IF k = "Hydrogen" THEN HYDROGEN_SOLID_LIMIT ELSE DEFAULT_STATIC_LIMIT

ItemStack(k, q) == [item_type |-> k, quantity |-> q]

\* ------------------------------------------------ sequence helpers
RECURSIVE total_local_quantity(_, _)
\* .iter().filter_map(|item| same kind).sum::<u32>()
total_local_quantity(items, k) ==
  IF items = <<>> THEN 0
  ELSE WrapAdd(IF Head(items).item_type = k THEN Head(items).quantity ELSE 0,
               total_local_quantity(Tail(items), k))

\* self.items.retain(|item| item.quantity > 0)
Retain(items) == SelectSeq(items, LAMBDA s : s.quantity # 0)

RemoveAt(items, i) == SubSeq(items, 1, i - 1) \o SubSeq(items, i + 1, Len(items))

\* contains with a slip: one stack alone has to hold the quantity
contains_single_stack(items, filter) ==
  \E i \in 1..Len(items) :
     items[i].item_type = filter.item_type /\ ~ULt(items[i].quantity, filter.quantity)

\* ------------------------------------------------ Inventory::contains
contains(items, filter) == ~ULt(total_local_quantity(items, filter.item_type), filter.quantity)

\* ---------------------------------------------------- Inventory::push
RECURSIVE PushFill(_, _, _, _, _)
\* the first loop of push: fill the existing stacks of the kind, in order.
\* Returns the stacks, what is left to add, and whether a u32 operation overflowed.
PushFill(items, i, k, left, ovf) ==
  IF i > Len(items) \/ left = 0 THEN [items |-> items, left |-> left, ovf |-> ovf]
  ELSE LET stack == items[i]
           lim == quantity_limit(stack.item_type)
           sum == WrapAdd(stack.quantity, left)
           o1 == AddOverflows(stack.quantity, left)
       IN IF stack.item_type # k THEN PushFill(items, i + 1, k, left, ovf)
          ELSE IF ULt(sum, lim)
                 THEN PushFill([items EXCEPT ![i].quantity = sum], i + 1, k, 0, ovf \/ o1)
          ELSE IF ULt(lim, sum)
                 THEN PushFill([items EXCEPT ![i].quantity = lim], i + 1, k,
                               WrapSub(left, WrapSub(lim, stack.quantity)),
                               ovf \/ o1 \/ SubOverflows(lim, stack.quantity)
                                   \/ SubOverflows(left, WrapSub(lim, stack.quantity)))
          ELSE PushFill([items EXCEPT ![i].quantity = lim], i + 1, k, 0, ovf \/ o1)

RECURSIVE PushNew(_, _, _)
\* the while loop of push: new stacks of cap size, then the leftover
PushNew(items, k, left) ==
  IF left = 0 THEN items
  ELSE IF ULt(left, quantity_limit(k)) THEN Append(items, ItemStack(k, left))
  ELSE PushNew(Append(items, ItemStack(k, quantity_limit(k))), k, WrapSub(left, quantity_limit(k)))

\* how many stacks the while loop of push appends for `left`; from 2^31 on (a
\* negative reading) at least the count for 2^31 - 1, which is all the length
\* guard below needs
NewStacks(k, left) ==
  IF left < 0 THEN I32Max \div quantity_limit(k)
  ELSE (left \div quantity_limit(k)) + (IF left % quantity_limit(k) > 0 THEN 1 ELSE 0)

\* the length of the inventory after push(item)
PushLen(items, item) ==
  Len(items) + NewStacks(item.item_type, PushFill(items, 1, item.item_type, item.quantity, FALSE).left)

\* push(item): the inventory afterwards and whether it overflowed on the way
PushResult(items, item) ==
  LET f == PushFill(items, 1, item.item_type, item.quantity, FALSE)
  IN [items |-> PushNew(f.items, item.item_type, f.left), ovf |-> f.ovf]

push(items, item) == PushResult(items, item).items

\* -------------------------------------------------- Inventory::remove
RECURSIVE RemoveLoop(_, _, _, _)
RemoveLoop(items, i, k, left) ==
  IF i > Len(items) THEN items
  ELSE LET stack == items[i]
       IN IF stack.item_type # k \/ stack.quantity = 0 THEN RemoveLoop(items, i + 1, k, left)
          ELSE IF ULt(left, stack.quantity)
                 THEN RemoveLoop([items EXCEPT ![i].quantity = WrapSub(stack.quantity, left)], i + 1, k, 0)
          ELSE RemoveLoop([items EXCEPT ![i].quantity = 0], i + 1, k, WrapSub(left, stack.quantity))

\* remove with a slip: the emptied stacks stay in the list
remove_keeps_empty(items, item) ==
  IF item.quantity = 0 THEN items
  ELSE RemoveLoop(items, 1, item.item_type, item.quantity)

\* Inventory::remove(&mut self, item)
remove(items, item) ==
  IF item.quantity = 0 THEN items
  ELSE Retain(RemoveLoop(items, 1, item.item_type, item.quantity))

\* ------------------------------------------------ Inventory::transfer
RECURSIVE TransferLoopKeepsStack(_, _, _, _, _, _)
\* TransferLoop with a slip: the split of a larger stack is pushed into the
\* destination but not taken off the source stack
TransferLoopKeepsStack(src, dst, i, k, left, ovf) ==
  IF i > Len(src) \/ left = 0 THEN [src |-> src, dst |-> dst, ovf |-> ovf]
  ELSE LET item == src[i]
       IN IF item.item_type # k \/ item.quantity = 0
            THEN TransferLoopKeepsStack(src, dst, i + 1, k, left, ovf)
          ELSE IF ULt(left, item.quantity)
            THEN LET p == PushResult(dst, ItemStack(k, left))
                 IN TransferLoopKeepsStack(src, p.items, i + 1, k, 0, ovf \/ p.ovf)
          ELSE LET p == PushResult(dst, item)
               IN TransferLoopKeepsStack([src EXCEPT ![i].quantity = 0],
                                         p.items, i + 1, k, WrapSub(left, item.quantity), ovf \/ p.ovf)

RECURSIVE TransferLoop(_, _, _, _, _, _)
\* the for loop of transfer over the source's stacks; each taken part is pushed
\* into the destination
TransferLoop(src, dst, i, k, left, ovf) ==
  IF i > Len(src) \/ left = 0 THEN [src |-> src, dst |-> dst, ovf |-> ovf]
  ELSE LET item == src[i]
       IN IF item.item_type # k \/ item.quantity = 0
            THEN TransferLoop(src, dst, i + 1, k, left, ovf)
          ELSE IF ULt(left, item.quantity)
            THEN LET p == PushResult(dst, ItemStack(k, left))
                 IN TransferLoop([src EXCEPT ![i].quantity = WrapSub(item.quantity, left)],
                                 p.items, i + 1, k, 0, ovf \/ p.ovf)
          ELSE LET p == PushResult(dst, item)
               IN TransferLoop([src EXCEPT ![i].quantity = 0],
                               p.items, i + 1, k, WrapSub(left, item.quantity), ovf \/ p.ovf)

\* TransferResult with a slip: no availability check before taking
TransferResultUnchecked(src, requested, dst) ==
  LET r == TransferLoop(src, dst, 1, requested.item_type, requested.quantity, FALSE)
  IN [src |-> Retain(r.src), dst |-> r.dst, ovf |-> r.ovf]

\* Inventory::transfer(requested, destination)
TransferResult(src, requested, dst) ==
  IF ULt(total_local_quantity(src, requested.item_type), requested.quantity)
    THEN [src |-> src, dst |-> dst, ovf |-> FALSE]
  ELSE LET r == TransferLoop(src, dst, 1, requested.item_type, requested.quantity, FALSE)
       IN [src |-> Retain(r.src), dst |-> r.dst, ovf |-> r.ovf]

\* ------------------------------------------ Inventory::transfer_first
\* transfer_first with a slip: the last stack is taken (a pop) instead of the first
TransferFirstResultTakesLast(src, dst) ==
  IF src = <<>> THEN [src |-> src, dst |-> dst, ovf |-> FALSE]
  ELSE LET p == PushResult(dst, src[Len(src)])
       IN [src |-> SubSeq(src, 1, Len(src) - 1), dst |-> p.items, ovf |-> p.ovf]

\* Inventory::transfer_first(destination)
TransferFirstResult(src, dst) ==
  IF src = <<>> THEN [src |-> src, dst |-> dst, ovf |-> FALSE]
  ELSE LET p == PushResult(dst, Head(src))
       IN [src |-> Tail(src), dst |-> p.items, ovf |-> p.ovf]

\* ------------------------------------------------------- Reaction
\* Reaction { input, output, duration }; durations in milliseconds
Reaction(in, out, d) == [input |-> in, output |-> out, duration |-> d]

\* the duration of the furnace recipe, 5 seconds
IRON_TO_GOLD_MILLIS == 5000

\* the registered recipe: 1 solid Iron -> 1 solid Gold
PROCESS_IRON_TO_GOLD ==
  Reaction(<<ItemStack("Iron", 1)>>, <<ItemStack("Gold", 1)>>, IRON_TO_GOLD_MILLIS)

\* self.input.iter().all(|item| input.contains(item)), false on an empty inventory
RECURSIVE ValidConsuming(_, _, _)
ValidConsuming(items, demand, i) ==
  IF i > Len(demand) THEN TRUE
  ELSE contains(items, demand[i]) /\ ValidConsuming(remove(items, demand[i]), demand, i + 1)

\* valid_input with a slip: each required stack is checked against what the
\* earlier ones would leave
valid_input_consuming(reaction, input) ==
  IF input = <<>> THEN FALSE
  ELSE ValidConsuming(input, reaction.input, 1)

\* Reaction::valid_input(&self, input)
valid_input(reaction, input) ==
  IF input = <<>> THEN FALSE
  ELSE \A i \in 1..Len(reaction.input) : contains(input, reaction.input[i])

RECURSIVE RemoveAll(_, _, _)
\* self.input.iter().for_each(|ele| input_inventory.remove(ele))
RemoveAll(items, demand, i) ==
  IF i > Len(demand) THEN items ELSE RemoveAll(remove(items, demand[i]), demand, i + 1)

RECURSIVE PushAll(_, _, _, _)
\* self.output.iter().for_each(|ele| output_inventory.push(ele.clone()))
PushAll(items, yield, i, ovf) ==
  IF i > Len(yield) THEN [items |-> items, ovf |-> ovf]
  ELSE LET p == PushResult(items, yield[i])
       IN PushAll(p.items, yield, i + 1, ovf \/ p.ovf)

\* RunResult with a slip: valid_input is not asked
RunResultUnchecked(reaction, input, output) ==
  IF input = <<>> THEN [src |-> input, dst |-> output, ovf |-> FALSE]
  ELSE LET p == PushAll(output, reaction.output, 1, FALSE)
       IN [src |-> RemoveAll(input, reaction.input, 1), dst |-> p.items, ovf |-> p.ovf]

\* Reaction::run(input_inventory, output_inventory)
RunResult(reaction, input, output) ==
  IF input = <<>> THEN [src |-> input, dst |-> output, ovf |-> FALSE]
  ELSE IF ~valid_input(reaction, input) THEN [src |-> input, dst |-> output, ovf |-> FALSE]
  ELSE LET p == PushAll(output, reaction.output, 1, FALSE)
       IN [src |-> RemoveAll(input, reaction.input, 1), dst |-> p.items, ovf |-> p.ovf]

\* ------------------------------------- blocks.rs: Output (Vec<ItemStack>)
\* Output::contains: some single stack of the kind holds the quantity
OutputContains(inv, accept) ==
  \E i \in 1..Len(inv) :
     inv[i].item_type = accept.item_type /\ ~ULt(inv[i].quantity, accept.quantity)

\* .iter_mut().find(...): the first such stack, 0 when there is none
OutputFind(inv, accept) ==
  IF OutputContains(inv, accept)
    THEN CHOOSE i \in 1..Len(inv) :
           /\ inv[i].item_type = accept.item_type /\ ~ULt(inv[i].quantity, accept.quantity)
           /\ \A j \in 1..(i - 1) :
                ~(inv[j].item_type = accept.item_type /\ ~ULt(inv[j].quantity, accept.quantity))
    ELSE 0

\* .iter().position(|x| x == &item_c): the first stack equal to x, 0 when none
Position(inv, x) ==
  IF \E i \in 1..Len(inv) : inv[i] = x
    THEN CHOOSE i \in 1..Len(inv) : inv[i] = x /\ \A j \in 1..(i - 1) : inv[j] # x
    ELSE 0

\* Output::transfer(accept, destination): destination is a Vec, push appends
OutputTransfer(inv, accept, dst) ==
  LET i == OutputFind(inv, accept)
  IN IF i = 0 THEN [src |-> inv, dst |-> dst, ovf |-> FALSE]
     ELSE LET dec == [inv EXCEPT ![i].quantity = WrapSub(inv[i].quantity, accept.quantity)]
              index == Position(dec, dec[i])
              after == IF dec[i].quantity = 0 /\ index # 0 THEN RemoveAt(dec, index) ELSE dec
          IN [src |-> after, dst |-> Append(dst, accept), ovf |-> FALSE]

\* a transfer_first that takes one unit off the first stack instead of the stack
OutputTransferFirstOneUnit(inv, dst) ==
  IF inv = <<>> THEN [src |-> inv, dst |-> dst, ovf |-> FALSE]
  ELSE [src |-> Retain(<<[Head(inv) EXCEPT !.quantity = WrapSub(@, 1)]>>) \o Tail(inv),
        dst |-> Append(dst, [Head(inv) EXCEPT !.quantity = 1]), ovf |-> FALSE]

\* Output::transfer_first(destination)
OutputTransferFirst(inv, dst) ==
  IF inv = <<>> THEN [src |-> inv, dst |-> dst, ovf |-> FALSE]
  ELSE [src |-> Tail(inv), dst |-> Append(dst, Head(inv)), ovf |-> FALSE]

\* the transfer rule of external_conveyor_system and grabber_system:
\* accepts is <<>> (None) or <<stack>> (Some(stack))
NeighbourTransfer(output, accepts, input) ==
  IF accepts # <<>>
    THEN IF output # <<>> /\ OutputContains(output, accepts[1])
           THEN OutputTransfer(output, accepts[1], input)
           ELSE [src |-> output, dst |-> input, ovf |-> FALSE]
    ELSE OutputTransferFirst(output, input)

\* the hop with a slip: the first Input stack is taken, not the last
InternalHopTakesFirst(input, output) ==
  IF input = <<>> THEN [src |-> input, dst |-> output, ovf |-> FALSE]
  ELSE [src |-> Tail(input), dst |-> Append(output, Head(input)), ovf |-> FALSE]

\* internal_conveyor_system for one conveyor: pop the last Input stack, append
\* it to the Output
InternalHop(input, output) ==
  IF input = <<>> THEN [src |-> input, dst |-> output, ovf |-> FALSE]
  ELSE [src |-> SubSeq(input, 1, Len(input) - 1),
        dst |-> Append(output, input[Len(input)]), ovf |-> FALSE]

\* ------------------------------------------------ components.rs: Process
\* Timer::new(duration, mode): nothing elapsed, not finished
TimerNew(duration, mode) ==
  [duration |-> duration, mode |-> mode, elapsed |-> 0, finished |-> FALSE,
   times_finished_this_tick |-> 0]

\* Process::default(): no reaction, Timer::default()
ProcessDefault == [reaction |-> <<>>, timer |-> TimerNew(0, "Once")]

\* set_reaction with a slip: the timer is left running as it was
set_reaction_keeps_timer(process, reaction) ==
  [process EXCEPT !.reaction = <<reaction>>]

\* Process::set_reaction(&mut self, reaction)
set_reaction(process, reaction) ==
  [reaction |-> <<reaction>>, timer |-> TimerNew(reaction.duration, "Repeating")]

\* =====================================================================
\* Spec: two inventories and the operations of materials.rs and of
\* blocks.rs's Output applied to them.  `source` plays the inventory an
\* operation takes from (an upstream Output, a furnace's or a conveyor's
\* Input), `destination` the one it gives to.
\* =====================================================================
VARIABLES
  source,           \* Inventory.items
  destination,      \* Inventory.items
  hist,             \* the last operation, its arguments and the inventories before it
  steps,            \* operations applied so far
  only_push,        \* TRUE while every operation so far was an Inventory::push
  overflow_checks,  \* the build: TRUE panics on u32 overflow, FALSE wraps
  panicked          \* an operation panicked; the program is gone

\* the placed blocks and the frame loop (SpecSim, SpecGrid)
VARIABLES
  blocks,           \* the Block entities with their Input / Output / Process, in query order
  scenario,         \* the layout Init placed
  ran,              \* the systems that have run in the current frame
  now,              \* Time: milliseconds elapsed, the sum of the frames' deltas
  frames,           \* frames (ticks) completed
  fired             \* how many times furnace_system has run a reaction

\* the player's options, the grid events and the deferred commands (SpecGrid)
VARIABLES
  spawner_options,  \* SpawnerOptions of the Player
  hover_events,     \* Events<GridCellHoveredEvent> not yet read by grid_cell_hover
  click_events,     \* Events<GridCellClickedEvent> not yet read by grid_cell_clicked
  commands,         \* Commands queued by the systems of the frame, not yet applied
  spawned           \* entities spawned so far: the next Entity is spawned + 1

\* a Process on its own, the dev panel and the unselected twin world
\* (SpecProcess, SpecSelect)
VARIABLES
  process,          \* a Process component
  assigned,         \* the last set_reaction call: its argument and the Process before it
  ui_state,         \* dev_ui's Local<UiState>
  shadow            \* the same world with the same ticks, in which nothing is ever clicked

\* what the tick systems have written (SpecSim)
VARIABLES
  written,          \* per block, the systems that changed its Input / its Output in this tick
  time_delta        \* Time::delta of the current frame, in milliseconds

invVars == <<source, destination, hist, steps, only_push>>
buildVars == <<overflow_checks, panicked>>
simVars == <<blocks, scenario, ran, now, frames, fired>>
gridVars == <<spawner_options, hover_events, click_events, commands, spawned>>
uiVars == <<process, assigned, ui_state, shadow>>
tickVars == <<written, time_delta>>
vars == <<invVars, buildVars, simVars, gridVars, uiVars, tickVars>>

\* quantities pushed: none, one, just under a cap, a cap, a multiple of it, u32::MAX
PushQuantities == {0, 1, 63, DEFAULT_STATIC_LIMIT, 2 * DEFAULT_STATIC_LIMIT, MaxU32}
\* quantities pushed to prepare the receiving inventory: a started stack, one
\* short of its cap, a full one
DestinationQuantities == {1, 63, DEFAULT_STATIC_LIMIT}
\* quantities requested by remove, transfer and an accepts filter
RequestQuantities == {0, 1, 2, DEFAULT_STATIC_LIMIT, DEFAULT_STATIC_LIMIT + 1}

\* quantities asked of contains: nothing, more than one stack holds, u32::MAX
QueryQuantities == {0, DEFAULT_STATIC_LIMIT + 1, MaxU32}
\* kinds asked of contains: contains only compares the kind for equality
QueryKinds == {"Iron", "Gold"}

\* a recipe demanding the same kind twice, 2 + 2 Iron -> 1 Gold
DOUBLE_DEMAND == Reaction(<<ItemStack("Iron", 2), ItemStack("Iron", 2)>>, <<ItemStack("Gold", 1)>>, IRON_TO_GOLD_MILLIS)
\* a recipe demanding nothing
NO_DEMAND == Reaction(<<>>, <<ItemStack("Hydrogen", 1)>>, IRON_TO_GOLD_MILLIS)
Reactions == {PROCESS_IRON_TO_GOLD, DOUBLE_DEMAND, NO_DEMAND}

NoItem == ItemStack("Iron", 0)
NoReaction == Reaction(<<>>, <<>>, 0)

\* SpawnerOptions: the player starts in Overview, selecting by Block
DefaultOptions ==
  [block_selection |-> "Debug", block_rotation |-> "North",
   grid_select_mode |-> "Block", player_mode |-> "Overview"]

NoCall == [op |-> "none", reaction |-> NoReaction, process |-> ProcessDefault]

UiIdle ==
  /\ process = ProcessDefault
  /\ assigned = NoCall
  /\ ui_state = [selected_reaction |-> <<>>]
  /\ shadow = <<>>

\* no tick system has written anything
NoWriters(bs) == [i \in 1..Len(bs) |-> [input |-> {}, output |-> {}]]

\* the record of a tick after `system` turned the world `before` into `after`
Writes(system, before, after, w) ==
  [i \in 1..Len(before) |->
     [input  |-> w[i].input \cup (IF after[i].input # before[i].input THEN {system} ELSE {}),
      output |-> w[i].output \cup (IF after[i].output # before[i].output THEN {system} ELSE {})]]

GridIdle ==
  /\ spawner_options = DefaultOptions
  /\ hover_events = <<>>
  /\ click_events = <<>>
  /\ commands = <<>>
  /\ spawned = 0

Hist(op, which, item, reaction, accepts) ==
  [op |-> op, which |-> which, item |-> item, reaction |-> reaction, accepts |-> accepts,
   src |-> source, dst |-> destination, answer |-> FALSE]

Init ==
  /\ source = <<>>
  /\ destination = <<>>
  /\ hist = [op |-> "none", which |-> "source", item |-> NoItem, reaction |-> NoReaction,
             accepts |-> <<>>, src |-> <<>>, dst |-> <<>>, answer |-> FALSE]
  /\ steps = 0
  /\ only_push = TRUE
  /\ overflow_checks \in BOOLEAN
  /\ panicked = FALSE
  /\ blocks = <<>> /\ scenario = "none" /\ ran = {} /\ now = 0 /\ frames = 0 /\ fired = 0
  /\ GridIdle
  /\ UiIdle
  /\ written = <<>>
  /\ time_delta = 0

\* an operation that produced r = [src, dst, ovf]: with overflow checks an
\* overflowing operation panics, otherwise its (wrapped) result stands
Apply(r) ==
  /\ Len(r.src) <= MaxStacks
  /\ Len(r.dst) <= MaxStacks
  /\ IF overflow_checks /\ r.ovf
       THEN panicked' = TRUE /\ UNCHANGED <<source, destination>>
       ELSE panicked' = FALSE /\ source' = r.src /\ destination' = r.dst
  /\ steps' = steps + 1
  /\ UNCHANGED <<overflow_checks, simVars, gridVars, uiVars, tickVars>>

Ready == steps < MaxOps /\ ~panicked

\* inventory.push(stack) on either inventory (dev_ui's "Add", or any caller)
DoPush(which, k, q) ==
  /\ Ready
  /\ PushLen(IF which = "source" THEN source ELSE destination, ItemStack(k, q)) <= MaxStacks
  /\ LET p == PushResult(IF which = "source" THEN source ELSE destination, ItemStack(k, q))
     IN Apply(IF which = "source"
                THEN [src |-> p.items, dst |-> destination, ovf |-> p.ovf]
                ELSE [src |-> source, dst |-> p.items, ovf |-> p.ovf])
  /\ hist' = Hist("push", which, ItemStack(k, q), NoReaction, <<>>)
  /\ UNCHANGED only_push

\* source.remove(&stack)
DoRemove(k, q) ==
  /\ Ready
  /\ Apply([src |-> remove(source, ItemStack(k, q)), dst |-> destination, ovf |-> FALSE])
  /\ hist' = Hist("remove", "source", ItemStack(k, q), NoReaction, <<>>)
  /\ only_push' = FALSE

\* source.transfer(&requested, &mut destination)
DoTransfer(k, q) ==
  /\ Ready
  /\ Apply(TransferResult(source, ItemStack(k, q), destination))
  /\ hist' = Hist("transfer", "source", ItemStack(k, q), NoReaction, <<>>)
  /\ only_push' = FALSE

\* source.transfer_first(&mut destination)
DoTransferFirst ==
  /\ Ready
  /\ Apply(TransferFirstResult(source, destination))
  /\ hist' = Hist("transfer_first", "source", NoItem, NoReaction, <<>>)
  /\ only_push' = FALSE

\* reaction.run(&mut source, &mut destination)
DoRun(reaction) ==
  /\ Ready
  /\ Apply(RunResult(reaction, source, destination))
  /\ hist' = Hist("run", "source", NoItem, reaction, <<>>)
  /\ only_push' = FALSE

\* a conveyor's or grabber's pull from the Output `source` into the Input
\* `destination`, whose accepts filter is `accepts`
DoNeighbourTransfer(accepts) ==
  /\ Ready
  /\ Apply(NeighbourTransfer(source, accepts, destination))
  /\ hist' = Hist("neighbour", "source", NoItem, NoReaction, accepts)
  /\ only_push' = FALSE

\* a conveyor's internal hop from its Input `source` to its Output `destination`
DoInternalHop ==
  /\ Ready
  /\ Apply(InternalHop(source, destination))
  /\ hist' = Hist("pop", "source", NoItem, NoReaction, <<>>)
  /\ only_push' = FALSE

\* source.contains(&filter): a query, its answer kept for the properties
DoContains(k, q) ==
  /\ Ready
  /\ Apply([src |-> source, dst |-> destination, ovf |-> FALSE])
  /\ hist' = [Hist("contains", "source", ItemStack(k, q), NoReaction, <<>>)
                 EXCEPT !.answer = contains(source, ItemStack(k, q))]
  /\ UNCHANGED only_push

\* reaction.valid_input(&source): a query, its answer kept for the properties
DoValidInput(reaction) ==
  /\ Ready
  /\ Apply([src |-> source, dst |-> destination, ovf |-> FALSE])
  /\ hist' = [Hist("valid_input", "source", NoItem, reaction, <<>>)
                 EXCEPT !.answer = valid_input(reaction, source)]
  /\ UNCHANGED only_push

Next ==
  \/ \E k \in Kinds, q \in RequestQuantities : DoNeighbourTransfer(<<ItemStack(k, q)>>)
  \/ DoNeighbourTransfer(<<>>)
  \/ DoInternalHop
  \/ \E reaction \in Reactions : DoRun(reaction)
  \/ \E k \in Kinds, q \in RequestQuantities : DoTransfer(k, q)
  \/ DoTransferFirst
  \/ \E k \in Kinds, q \in RequestQuantities : DoRemove(k, q)
  \/ \E k \in Kinds, q \in PushQuantities : DoPush("source", k, q)
  \/ \E k \in Kinds, q \in DestinationQuantities : DoPush("destination", k, q)
  \/ \E k \in QueryKinds, q \in QueryQuantities : DoContains(k, q)
  \/ \E reaction \in Reactions : DoValidInput(reaction)

Spec == Init /\ [][Next]_vars

\* ------------------------------------------------- blocks.rs: Block, spawn
BlockTypes == {"Debug", "Furnace", "Conveyor", "Splitter", "Storage", "Grabber"}
Directions == {"North", "South", "East", "West", "Up", "Down"}

V3Add(a, b) == <<a[1] + b[1], a[2] + b[2], a[3] + b[3]>>

\* BlockType::spawn for a click inside the lattice cell `cell`: min is the
\* floor of the click, max its ceiling (one further along z for a Splitter);
\* Furnace, Conveyor, Splitter and Storage carry an Input and an Output, the
\* Furnace a Process with the registered reaction, the Storage 10 Iron in its
\* Output; Debug and Grabber carry neither
spawn(block_type, direction, cell) ==
  [ block_type  |-> block_type,
    direction   |-> direction,
    min         |-> cell,
    max         |-> IF block_type = "Splitter" THEN V3Add(cell, <<1, 1, 2>>)
                    ELSE V3Add(cell, <<1, 1, 1>>),
    has_input   |-> block_type \in {"Furnace", "Conveyor", "Splitter", "Storage"},
    has_output  |-> block_type \in {"Furnace", "Conveyor", "Splitter", "Storage"},
    accepts     |-> <<>>,
    input       |-> <<>>,
    output      |-> IF block_type = "Storage" THEN <<ItemStack("Iron", 10)>> ELSE <<>>,
    reaction    |-> IF block_type = "Furnace" THEN <<PROCESS_IRON_TO_GOLD>> ELSE <<>> ]

\* reverse with a slip: a quarter turn for the four compass directions
reverse_quarter_turn(direction) ==
  CASE direction = "North" -> "East"
    [] direction = "East"  -> "South"
    [] direction = "South" -> "West"
    [] direction = "West"  -> "North"
    [] direction = "Up"    -> "Down"
    [] direction = "Down"  -> "Up"

\* player.rs: Direction::reverse
reverse(direction) ==
  CASE direction = "North" -> "South"
    [] direction = "East"  -> "West"
    [] direction = "South" -> "North"
    [] direction = "West"  -> "East"
    [] direction = "Up"    -> "Down"
    [] direction = "Down"  -> "Up"

\* the cell a block takes what it pulls from: the match arms of
\* external_conveyor_system and the `output` arms of grabber_system
Behind(direction) ==
  CASE direction = "North" -> <<-1, 0, 0>>
    [] direction = "South" -> <<1, 0, 0>>
    [] direction = "East"  -> <<0, 0, -1>>
    [] direction = "West"  -> <<0, 0, 1>>
    [] direction = "Up"    -> <<0, -1, 0>>
    [] direction = "Down"  -> <<0, 1, 0>>

\* the cell a grabber delivers to: the `input` arms of grabber_system
Ahead(direction) ==
  CASE direction = "North" -> <<1, 0, 0>>
    [] direction = "South" -> <<-1, 0, 0>>
    [] direction = "East"  -> <<0, 0, 1>>
    [] direction = "West"  -> <<0, 0, -1>>
    [] direction = "Up"    -> <<0, 1, 0>>
    [] direction = "Down"  -> <<0, -1, 0>>

\* Iterator::find over a query: the first entity, in query order, of the
\* wanted kind whose min is exactly `cell`; 0 when there is none
RECURSIVE Find(_, _, _, _)
Find(bs, i, wanted, cell) ==
  IF i > Len(bs) THEN 0
  ELSE IF wanted[i] /\ bs[i].min = cell THEN i
  ELSE Find(bs, i + 1, wanted, cell)

IsConveyor(bs) == [i \in 1..Len(bs) |-> bs[i].block_type = "Conveyor"]
HasInput(bs) == [i \in 1..Len(bs) |-> bs[i].has_input]
HasOutput(bs) == [i \in 1..Len(bs) |-> bs[i].has_output]

\* ----------------------------------------------- blocks.rs: furnace_system
\* every Furnace whose Process has a reaction and whose Input satisfies
\* valid_input runs the reaction, on every call: the timer tick and the
\* finished() test are commented out.  The result carries the number of runs.
RECURSIVE furnace_loop_keeps_input(_, _, _, _)
\* furnace_loop with a slip: the run yields without consuming the Input
furnace_loop_keeps_input(bs, i, runs, ovf) ==
  IF i > Len(bs) THEN [blocks |-> bs, runs |-> runs, ovf |-> ovf]
  ELSE IF bs[i].block_type # "Furnace" \/ bs[i].reaction = <<>>
    THEN furnace_loop_keeps_input(bs, i + 1, runs, ovf)
  ELSE IF ~valid_input(bs[i].reaction[1], bs[i].input)
    THEN furnace_loop_keeps_input(bs, i + 1, runs, ovf)
  ELSE LET r == RunResult(bs[i].reaction[1], bs[i].input, bs[i].output)
       IN furnace_loop_keeps_input([bs EXCEPT ![i].output = r.dst],
                                   i + 1, runs + 1, ovf \/ r.ovf)

RECURSIVE furnace_loop(_, _, _, _)
furnace_loop(bs, i, runs, ovf) ==
  IF i > Len(bs) THEN [blocks |-> bs, runs |-> runs, ovf |-> ovf]
  ELSE IF bs[i].block_type # "Furnace" \/ bs[i].reaction = <<>>
    THEN furnace_loop(bs, i + 1, runs, ovf)
  ELSE IF ~valid_input(bs[i].reaction[1], bs[i].input)
    THEN furnace_loop(bs, i + 1, runs, ovf)
  ELSE LET r == RunResult(bs[i].reaction[1], bs[i].input, bs[i].output)
       IN furnace_loop([bs EXCEPT ![i].input = r.src, ![i].output = r.dst],
                       i + 1, runs + 1, ovf \/ r.ovf)

\* ------------------------------------- blocks.rs: internal_conveyor_system
RECURSIVE internal_conveyor_loop_any_block(_, _)
\* internal_conveyor_loop with a slip: the query is not limited to Conveyors
internal_conveyor_loop_any_block(bs, i) ==
  IF i > Len(bs) THEN bs
  ELSE IF ~bs[i].has_input \/ ~bs[i].has_output THEN internal_conveyor_loop_any_block(bs, i + 1)
  ELSE LET r == InternalHop(bs[i].input, bs[i].output)
       IN internal_conveyor_loop_any_block([bs EXCEPT ![i].input = r.src, ![i].output = r.dst], i + 1)

RECURSIVE internal_conveyor_loop(_, _)
internal_conveyor_loop(bs, i) ==
  IF i > Len(bs) THEN bs
  ELSE IF bs[i].block_type # "Conveyor" THEN internal_conveyor_loop(bs, i + 1)
  ELSE LET r == InternalHop(bs[i].input, bs[i].output)
       IN internal_conveyor_loop([bs EXCEPT ![i].input = r.src, ![i].output = r.dst], i + 1)

\* ------------------------------------- blocks.rs: external_conveyor_system
\* both queries are With<Conveyor>: the upstream is looked for among the
\* Conveyors only.  A Conveyor without one returns from the system, so the
\* Conveyors later in the query are not served in that call.
RECURSIVE external_conveyor_loop(_, _, _)
external_conveyor_loop(bs, i, ovf) ==
  IF i > Len(bs) THEN [blocks |-> bs, ovf |-> ovf]
  ELSE IF bs[i].block_type # "Conveyor" THEN external_conveyor_loop(bs, i + 1, ovf)
  ELSE LET o == Find(bs, 1, IsConveyor(bs), V3Add(bs[i].min, Behind(bs[i].direction)))
       IN IF o = 0 THEN [blocks |-> bs, ovf |-> ovf]
          ELSE LET r == NeighbourTransfer(bs[o].output, bs[i].accepts, bs[i].input)
               IN external_conveyor_loop([bs EXCEPT ![o].output = r.src, ![i].input = r.dst],
                                         i + 1, ovf \/ r.ovf)

\* ----------------------------------------------- blocks.rs: grabber_system
\* a Grabber has no inventory: it moves from the Output of the block behind
\* it into the Input of the block ahead; a missing side returns from the system
RECURSIVE grabber_loop_keeps_source(_, _, _)
\* grabber_loop with a slip: the stack reaches the Input and stays in the Output
grabber_loop_keeps_source(bs, i, ovf) ==
  IF i > Len(bs) THEN [blocks |-> bs, ovf |-> ovf]
  ELSE IF bs[i].block_type # "Grabber" THEN grabber_loop_keeps_source(bs, i + 1, ovf)
  ELSE LET inp == Find(bs, 1, HasInput(bs), V3Add(bs[i].min, Ahead(bs[i].direction)))
           o   == Find(bs, 1, HasOutput(bs), V3Add(bs[i].min, Behind(bs[i].direction)))
       IN IF inp = 0 \/ o = 0 THEN [blocks |-> bs, ovf |-> ovf]
          ELSE LET r == NeighbourTransfer(bs[o].output, bs[inp].accepts, bs[inp].input)
               IN grabber_loop_keeps_source([bs EXCEPT ![inp].input = r.dst],
                                            i + 1, ovf \/ r.ovf)

RECURSIVE grabber_loop(_, _, _)
grabber_loop(bs, i, ovf) ==
  IF i > Len(bs) THEN [blocks |-> bs, ovf |-> ovf]
  ELSE IF bs[i].block_type # "Grabber" THEN grabber_loop(bs, i + 1, ovf)
  ELSE LET inp == Find(bs, 1, HasInput(bs), V3Add(bs[i].min, Ahead(bs[i].direction)))
           o   == Find(bs, 1, HasOutput(bs), V3Add(bs[i].min, Behind(bs[i].direction)))
       IN IF inp = 0 \/ o = 0 THEN [blocks |-> bs, ovf |-> ovf]
          ELSE LET r == NeighbourTransfer(bs[o].output, bs[inp].accepts, bs[inp].input)
               IN grabber_loop([bs EXCEPT ![o].output = r.src, ![inp].input = r.dst],
                               i + 1, ovf \/ r.ovf)

\* =====================================================================
\* SpecSim: a layout of blocks and the frame loop.  Each frame advances
\* Time by its delta and then runs the four tick systems once each, in an
\* order the schedule does not fix (BlockPlugin adds them unordered).
\* =====================================================================
Systems == {"furnace_system", "internal_conveyor_system", "external_conveyor_system", "grabber_system"}

\* frame deltas in milliseconds
FrameDeltas == {1, 2500, 4999, IRON_TO_GOLD_MILLIS}

\* the orders in which three entities can come out of a query
Orders3 == {p \in [1..3 -> 1..3] : \A i, j \in 1..3 : p[i] = p[j] => i = j}
Ordered(bs, p) == [i \in 1..3 |-> bs[p[i]]]

\* one Furnace whose Input holds a full stack of Iron
FurnaceLayouts ==
  { <<[spawn("Furnace", d, <<0, 0, 0>>) EXCEPT !.input = push(<<>>, ItemStack("Iron", DEFAULT_STATIC_LIMIT))]>> :
      d \in Directions }

\* one Furnace whose Input was loaded with exactly 1 Iron
ConversionLayouts ==
  { <<[spawn("Furnace", d, <<0, 0, 0>>) EXCEPT !.input = push(<<>>, ItemStack("Iron", 1))]>> :
      d \in Directions }

\* a Conveyor at (0,0,0) and a Conveyor at (1,0,0), both facing East, and a
\* Storage (10 Iron in its Output) next to the second one: at (2,0,0), or at
\* (1,0,-1), the cell the East arm of external_conveyor_system looks at
ChainLayouts ==
  { Ordered(<<spawn("Conveyor", "East", <<0, 0, 0>>),
              spawn("Conveyor", "East", <<1, 0, 0>>),
              spawn("Storage", "East", cell)>>, p) :
      cell \in {<<2, 0, 0>>, <<1, 0, -1>>}, p \in Orders3 }

\* what the relay's Storage holds: 5 Copper as one stack, as five stacks of
\* one, or as two stacks
RelayOutputs ==
  { <<ItemStack("Copper", 5)>>,
    <<ItemStack("Copper", 1), ItemStack("Copper", 1), ItemStack("Copper", 1),
      ItemStack("Copper", 1), ItemStack("Copper", 1)>>,
    <<ItemStack("Copper", 2), ItemStack("Copper", 3)>> }

\* a Grabber facing d, a Storage whose Output holds 5 Copper in the cell
\* behind it and a Splitter in the cell ahead of it
RelayLayouts ==
  { Ordered(<<[spawn("Storage", d, Behind(d)) EXCEPT !.output = held],
              spawn("Grabber", d, <<0, 0, 0>>),
              spawn("Splitter", d, Ahead(d))>>, p) :
      d \in Directions, p \in Orders3, held \in RelayOutputs }

\* what the head of the conveyor line holds in its Output
LineHeld == <<ItemStack("Iron", 3), ItemStack("Gold", 1)>>

\* a line of three Conveyors facing East: the head at (0,0,0), with stacks in
\* its Output and no Conveyor upstream of it, feeds the one at (0,0,1), which
\* feeds the one at (0,0,2); the query hands them out in any order
LineLayouts ==
  { Ordered(<<[spawn("Conveyor", "East", <<0, 0, 0>>) EXCEPT !.output = LineHeld],
              spawn("Conveyor", "East", <<0, 0, 1>>),
              spawn("Conveyor", "East", <<0, 0, 2>>)>>, p) :
      p \in Orders3 }

\* the relay Storage (5 Copper) - Grabber - Splitter along d, and a second
\* Grabber far from every block, before or after the first in the query
StrayLayouts ==
  { IF first THEN <<spawn("Grabber", "North", <<5, 5, 5>>)>> \o relay
             ELSE relay \o <<spawn("Grabber", "North", <<5, 5, 5>>)>> :
      first \in BOOLEAN,
      relay \in { <<[spawn("Storage", dd, Behind(dd)) EXCEPT !.output = <<ItemStack("Copper", 5)>>],
                    spawn("Grabber", dd, <<0, 0, 0>>),
                    spawn("Splitter", dd, Ahead(dd))>> : dd \in Directions } }

\* what stands in the Output of the block behind the fed Conveyor, and in the
\* Output of the Storage ahead of it
FeedHeld == <<ItemStack("Iron", 10)>>
DecoyHeld == <<ItemStack("Gold", 7)>>
FeedKinds == {"Storage", "Furnace", "Splitter", "Conveyor"}

\* a Conveyor facing d at (0,0,0); in the cell behind it a block of one of the
\* kinds that carry an Output, holding 10 Iron there; in the cell ahead of it
\* a Storage holding 7 Gold; the queries hand them out in any order.  (A
\* Splitter placed behind a Conveyor facing East would reach into the
\* Conveyor's own cell: that placement is left out.)
FeedLayouts ==
  { Ordered(<<spawn("Conveyor", dk[1], <<0, 0, 0>>),
              [spawn(dk[2], dk[1], Behind(dk[1])) EXCEPT !.output = FeedHeld],
              [spawn("Storage", dk[1], Ahead(dk[1])) EXCEPT !.output = DecoyHeld]>>, p) :
      dk \in {x \in Directions \X FeedKinds : x # <<"East", "Splitter">>}, p \in Orders3 }

\* a Grabber facing d at (0,0,0) that lacks a side: a Storage (5 Copper)
\* behind it and nothing ahead, or a Debug block ahead (no Input); a Splitter
\* ahead of it and nothing behind, or a Debug block behind (no Output)
HalfLayouts ==
  UNION { { <<[spawn("Storage", d, Behind(d)) EXCEPT !.output = <<ItemStack("Copper", 5)>>],
              spawn("Grabber", d, <<0, 0, 0>>)>>,
            <<spawn("Grabber", d, <<0, 0, 0>>),
              [spawn("Storage", d, Behind(d)) EXCEPT !.output = <<ItemStack("Copper", 5)>>],
              spawn("Debug", d, Ahead(d))>>,
            <<spawn("Splitter", d, Ahead(d)),
              spawn("Grabber", d, <<0, 0, 0>>)>>,
            <<spawn("Grabber", d, <<0, 0, 0>>),
              spawn("Debug", d, Behind(d)),
              [spawn("Storage", d, Ahead(d)) EXCEPT !.output = <<ItemStack("Copper", 5)>>]>> } :
          d \in Directions }

InvIdle ==
  /\ source = <<>>
  /\ destination = <<>>
  /\ hist = [op |-> "none", which |-> "source", item |-> NoItem, reaction |-> NoReaction,
             accepts |-> <<>>, src |-> <<>>, dst |-> <<>>, answer |-> FALSE]
  /\ steps = 0
  /\ only_push = TRUE

\* a Furnace with an empty Input at the end of a relay: Storage (10 Iron),
\* Grabber, Conveyor, Grabber, Furnace along East; the Iron reaches the
\* Furnace in the second tick at the earliest
LateLayouts ==
  LET relay == <<spawn("Storage", "East", <<0, 0, 0>>),
                 spawn("Grabber", "East", <<0, 0, 1>>),
                 spawn("Conveyor", "East", <<0, 0, 2>>),
                 spawn("Grabber", "East", <<0, 0, 3>>),
                 spawn("Furnace", "East", <<0, 0, 4>>)>>
  IN { relay, [i \in 1..5 |-> relay[6 - i]] }

\* a Splitter at (0,0,0), which spans the cells (0,0,0) and (0,0,1); a Grabber
\* facing d whose cell ahead is (0,0,1), the Splitter's second cell; a Storage
\* (10 Iron) in the cell behind the Grabber
SpanLayouts ==
  { Ordered(<<spawn("Splitter", d, <<0, 0, 0>>),
              spawn("Grabber", d, V3Add(<<0, 0, 1>>, Behind(d))),
              spawn("Storage", d, V3Add(V3Add(<<0, 0, 1>>, Behind(d)), Behind(d)))>>, p) :
      d \in Directions \ {"East"}, p \in Orders3 }

SimInit ==
  /\ InvIdle
  /\ overflow_checks \in BOOLEAN
  /\ panicked = FALSE
  /\ \/ scenario = "furnace" /\ blocks \in FurnaceLayouts
     \/ scenario = "chain" /\ blocks \in ChainLayouts
     \/ scenario = "relay" /\ blocks \in RelayLayouts
     \/ scenario = "conversion" /\ blocks \in ConversionLayouts
     \/ scenario = "line" /\ blocks \in LineLayouts
     \/ scenario = "stray" /\ blocks \in StrayLayouts
     \/ scenario = "feed" /\ blocks \in FeedLayouts
     \/ scenario = "half" /\ blocks \in HalfLayouts
     \/ scenario = "late" /\ blocks \in LateLayouts
     \/ scenario = "span" /\ blocks \in SpanLayouts
  /\ ran = Systems
  /\ now = 0
  /\ frames = 0
  /\ fired = 0
  /\ GridIdle
  /\ UiIdle
  /\ written = NoWriters(blocks)
  /\ time_delta = 0

\* a new frame: Time advances by the frame's delta
BeginFrame(delta) ==
  /\ ~panicked
  /\ ran = Systems
  /\ frames < MaxFrames
  /\ ran' = {}
  /\ now' = now + delta
  /\ written' = NoWriters(blocks)
  /\ time_delta' = delta
  /\ UNCHANGED <<blocks, scenario, frames, fired, invVars, buildVars, gridVars, uiVars>>

\* a system runs once in the frame; the frame is complete when all four have
RunSystem(system, r, runs) ==
  /\ ~panicked
  /\ system \notin ran
  /\ ran' = ran \cup {system}
  /\ frames' = IF ran' = Systems /\ frames < MaxFrames THEN frames + 1 ELSE frames
  /\ IF overflow_checks /\ r.ovf
       THEN panicked' = TRUE /\ UNCHANGED <<blocks, fired, written>>
       ELSE /\ panicked' = FALSE /\ blocks' = r.blocks /\ fired' = fired + runs
            /\ written' = Writes(system, blocks, r.blocks, written)
  /\ UNCHANGED <<scenario, now, time_delta, overflow_checks, invVars, gridVars, uiVars>>

furnace_system ==
  LET r == furnace_loop(blocks, 1, 0, FALSE)
  IN RunSystem("furnace_system", r, r.runs)

internal_conveyor_system ==
  RunSystem("internal_conveyor_system",
            [blocks |-> internal_conveyor_loop(blocks, 1), ovf |-> FALSE], 0)

external_conveyor_system ==
  RunSystem("external_conveyor_system", external_conveyor_loop(blocks, 1, FALSE), 0)

grabber_system ==
  RunSystem("grabber_system", grabber_loop(blocks, 1, FALSE), 0)

SimNext ==
  \/ \E delta \in FrameDeltas : BeginFrame(delta)
  \/ furnace_system
  \/ internal_conveyor_system
  \/ external_conveyor_system
  \/ grabber_system

SpecSim == SimInit /\ [][SimNext]_vars

\* =====================================================================
\* SpecLine: the line of three Conveyors with the app loop running for
\* ever.  Every frame runs the four systems once each; the conveyor
\* systems take no Time, so Time is left out and the frames past MaxFrames
\* are not counted.  App::run keeps the schedule going: the next system of
\* the frame, or the next frame, is run as long as the app has not panicked.
\* =====================================================================
LineInit ==
  /\ SimInit
  /\ scenario = "line"

\* the next frame of the loop
NextFrame ==
  /\ ~panicked
  /\ ran = Systems
  /\ ran' = {}
  /\ written' = NoWriters(blocks)
  /\ UNCHANGED <<blocks, scenario, now, time_delta, frames, fired, invVars, buildVars,
                 gridVars, uiVars>>

LineNext ==
  \/ NextFrame
  \/ furnace_system
  \/ internal_conveyor_system
  \/ external_conveyor_system
  \/ grabber_system

\* what every step of LineNext does to the schedule: one more system of the
\* frame has run, or a new frame has begun
Schedule ==
  /\ ~panicked
  /\ \/ ran = Systems /\ ran' = {}
     \/ \E system \in Systems \ ran : ran' = ran \cup {system}

SpecLine == LineInit /\ [][LineNext]_vars /\ WF_ran(Schedule)

\* =====================================================================
\* SpecGrid: placing, selecting and destroying blocks.  Each frame the
\* engine first updates the event buffers, then runs player_hotkeys,
\* grid_cell_select, grid_cell_hover and grid_cell_clicked once each, in an
\* order the schedule does not fix, then applies the queued Commands.
\* =====================================================================
GridSystems == {"player_hotkeys", "grid_cell_select", "grid_cell_hover", "grid_cell_clicked"}

\* the block types the player picks from here, the keys pressed, the plane
\* cells and the block faces the cursor reaches
GridBlockTypes == {"Furnace", "Splitter"}
Keys == {"none", "Key2", "Key4", "Q", "Escape"}
PlaneCells == {<<0, 0, 0>>, <<0, 0, 1>>}
FaceNormals == {<<0, -1, 0>>, <<0, 0, -1>>}

V3Sub(a, b) == <<a[1] - b[1], a[2] - b[2], a[3] - b[3]>>

\* the lattice cells inside a block's bounding box
Cells(b) ==
  {<<x, y, z>> : x \in b.min[1]..(b.max[1] - 1), y \in b.min[2]..(b.max[2] - 1),
                 z \in b.min[3]..(b.max[3] - 1)}
Occupied(bs, cell) == \E i \in 1..Len(bs) : cell \in Cells(bs[i])

\* the index of the entity in the world, 0 when it does not exist
EntityIndex(bs, entity) ==
  IF \E i \in 1..Len(bs) : bs[i].entity = entity
    THEN CHOOSE i \in 1..Len(bs) : bs[i].entity = entity
    ELSE 0

\* ------------------------------------------- player.rs: player_hotkeys
player_hotkeys_key(opts, key) ==
  CASE key = "Key1" -> [opts EXCEPT !.block_selection = "Debug"]
    [] key = "Key2" -> [opts EXCEPT !.block_selection = "Furnace"]
    [] key = "Key3" -> [opts EXCEPT !.block_selection = "Conveyor"]
    [] key = "Key4" -> [opts EXCEPT !.block_selection = "Splitter"]
    [] key = "Key5" -> [opts EXCEPT !.block_selection = "Storage"]
    [] key = "Key6" -> [opts EXCEPT !.block_selection = "Grabber"]
    [] key = "R" ->
         [opts EXCEPT !.block_rotation =
            CASE @ = "North" -> "East" [] @ = "East" -> "South" [] @ = "South" -> "West"
              [] @ = "West" -> "Up" [] @ = "Up" -> "Down" [] @ = "Down" -> "North"]
    [] key = "Q" ->
         LET mode == CASE opts.player_mode = "Overview" -> "Build"
                       [] opts.player_mode = "Build" -> "Destroy"
                       [] opts.player_mode = "Destroy" -> "Overview"
         IN [opts EXCEPT !.player_mode = mode,
                         !.grid_select_mode = IF mode = "Build" THEN "OnTopOfBlock" ELSE "Block"]
    [] key = "Escape" -> [opts EXCEPT !.player_mode = "Overview", !.grid_select_mode = "Block"]
    [] OTHER -> opts

\* ------------------------------------------- grid.rs: grid_cell_select
\* the event grid_cell_select sends for what is under the cursor.  A hovered
\* block gives its own cell when selecting by Block and the cell across the
\* hit face (centre - normal) when selecting OnTopOfBlock; the build plane
\* gives the cell under the hit point, with no entity (0).  The cursor
\* reaches only what no block covers: a free plane cell, a face whose
\* neighbouring cell is free.
HoverEvent(grid_cell, entity) == [grid_cell |-> grid_cell, entity |-> entity]

HoverTargets(bs, opts) ==
  {HoverEvent(cell, 0) : cell \in {c \in PlaneCells : ~Occupied(bs, c)}}
  \cup
  (IF opts.grid_select_mode = "Block"
     THEN {HoverEvent(bs[i].min, bs[i].entity) : i \in 1..Len(bs)}
     ELSE {HoverEvent(V3Sub(bs[i].min, normal), bs[i].entity) :
             <<i, normal>> \in {t \in (1..Len(bs)) \X FaceNormals :
                                  ~Occupied(bs, V3Sub(bs[t[1]].min, t[2]))}})

\* ------------------------------------------- grid.rs: grid_cell_clicked
Command(cmd, entity, block) == [cmd |-> cmd, entity |-> entity, block |-> block]

\* the entities carrying BlockClicked, in query order
RECURSIVE current_selected(_, _)
current_selected(bs, i) ==
  IF i > Len(bs) THEN <<>>
  ELSE (IF bs[i].clicked THEN <<Command("remove_clicked", bs[i].entity, <<>>)>> ELSE <<>>)
       \o current_selected(bs, i + 1)

\* the Commands one GridCellClickedEvent queues
clicked_event(ele, opts, bs) ==
  CASE opts.player_mode = "Overview" ->
         IF ele.entity # 0
           THEN current_selected(bs, 1) \o <<Command("insert_clicked", ele.entity, <<>>)>>
           ELSE <<>>
    [] opts.player_mode = "Build" ->
         <<Command("spawn", 0, spawn(opts.block_selection, opts.block_rotation, ele.grid_cell))>>
    [] opts.player_mode = "Destroy" ->
         IF ele.entity # 0 THEN <<Command("despawn", ele.entity, <<>>)>> ELSE <<>>

RECURSIVE clicked_loop(_, _, _)
clicked_loop(events, opts, bs) ==
  IF events = <<>> THEN <<>>
  ELSE clicked_event(Head(events), opts, bs) \o clicked_loop(Tail(events), opts, bs)

\* commands.entity(ent) is asked for an entity that no longer exists
StaleEntity(events, opts, bs) ==
  /\ opts.player_mode \in {"Overview", "Destroy"}
  /\ \E i \in 1..Len(events) : events[i].entity # 0 /\ EntityIndex(bs, events[i].entity) = 0

\* ------------------------------------------- the engine: applying Commands
\* Inserting or removing a component moves the entity to the table of its new
\* archetype.  A query walks its tables in the order they were created (for a
\* block type: the one without BlockClicked, then the one with it) and each
\* table row by row; the moved entity leaves its row to the last entity of
\* the table it leaves (swap_remove) and takes the last row of the table it
\* joins.  `bs` is kept in query order.
InsertAt(bs, i, b) == SubSeq(bs, 1, i - 1) \o <<b>> \o SubSeq(bs, i, Len(bs))

Last(S) == CHOOSE i \in S : \A j \in S : j <= i
First(S) == CHOOSE i \in S : \A j \in S : i <= j

MoveTable(bs, i, clicked) ==
  LET e      == [bs[i] EXCEPT !.clicked = clicked]
      old    == {j \in 1..Len(bs) : bs[j].block_type = bs[i].block_type /\ bs[j].clicked = bs[i].clicked}
      left   == RemoveAt([bs EXCEPT ![i] = bs[Last(old)]], Last(old))
      type   == {j \in 1..Len(left) : left[j].block_type = e.block_type}
      before == IF clicked THEN type ELSE {j \in type : ~left[j].clicked}
  IN IF before # {} THEN InsertAt(left, Last(before) + 1, e)
     ELSE IF type # {} THEN InsertAt(left, First(type), e)
     ELSE Append(left, e)

RECURSIVE apply_commands(_, _, _)
apply_commands(cmds, bs, n) ==
  IF cmds = <<>> THEN [blocks |-> bs, spawned |-> n]
  ELSE LET c == Head(cmds)
           i == EntityIndex(bs, c.entity)
       IN CASE c.cmd = "spawn" ->
                 apply_commands(Tail(cmds),
                                Append(bs, c.block @@ [entity |-> n + 1, clicked |-> FALSE]), n + 1)
            [] c.cmd = "despawn" ->
                 apply_commands(Tail(cmds), IF i = 0 THEN bs ELSE RemoveAt(bs, i), n)
            [] c.cmd = "remove_clicked" ->
                 apply_commands(Tail(cmds),
                                IF i = 0 \/ ~bs[i].clicked THEN bs ELSE MoveTable(bs, i, FALSE), n)
            [] c.cmd = "insert_clicked" ->
                 apply_commands(Tail(cmds),
                                IF i = 0 \/ bs[i].clicked THEN bs ELSE MoveTable(bs, i, TRUE), n)

Spawns(cmds) == Len(SelectSeq(cmds, LAMBDA c : c.cmd = "spawn"))

GridInit ==
  /\ InvIdle
  /\ overflow_checks \in BOOLEAN
  /\ panicked = FALSE
  /\ blocks = <<>>
  /\ scenario = "grid"
  /\ ran = GridSystems \cup {"apply_system_buffers"}
  /\ now = 0
  /\ frames = 0
  /\ fired = 0
  /\ spawner_options \in {[DefaultOptions EXCEPT !.block_selection = t] : t \in GridBlockTypes}
  /\ hover_events = <<>>
  /\ click_events = <<>>
  /\ commands = <<>>
  /\ spawned = 0
  /\ UiIdle
  /\ written = <<>>
  /\ time_delta = 0

GridUnchanged == UNCHANGED <<invVars, overflow_checks, scenario, now, fired, uiVars, tickVars>>

\* a new frame: Events::update_system drops the events sent two frames ago
\* and keeps those of the last frame for one more
GridBeginFrame ==
  /\ ~panicked
  /\ ran = GridSystems \cup {"apply_system_buffers"}
  /\ frames < MaxFrames
  /\ ran' = {}
  /\ hover_events' = [i \in 1..Len(SelectSeq(hover_events, LAMBDA e : e.age = 0)) |->
                        [SelectSeq(hover_events, LAMBDA e : e.age = 0)[i] EXCEPT !.age = 1]]
  /\ UNCHANGED <<blocks, frames, panicked, spawner_options, click_events, commands, spawned>>
  /\ GridUnchanged

GridRun(system) ==
  /\ ~panicked
  /\ system \notin ran
  /\ system \in GridSystems
  /\ ran' = ran \cup {system}
  /\ UNCHANGED <<blocks, frames, spawned>>
  /\ GridUnchanged

player_hotkeys(key) ==
  /\ GridRun("player_hotkeys")
  /\ spawner_options' = player_hotkeys_key(spawner_options, key)
  /\ UNCHANGED <<panicked, hover_events, click_events, commands>>

\* grid_cell_select with nothing under the cursor: no event
grid_cell_select_nothing ==
  /\ GridRun("grid_cell_select")
  /\ UNCHANGED <<panicked, spawner_options, hover_events, click_events, commands>>

grid_cell_select(target) ==
  /\ GridRun("grid_cell_select")
  /\ hover_events' = Append(hover_events, target @@ [age |-> 0])
  /\ UNCHANGED <<panicked, spawner_options, click_events, commands>>

\* grid_cell_hover: without a press it returns before reading; on a press it
\* forwards every hover event it has not read, last frame's included
grid_cell_hover(just_pressed) ==
  /\ GridRun("grid_cell_hover")
  /\ IF just_pressed
       THEN /\ click_events' = click_events \o
                 [i \in 1..Len(hover_events) |->
                    HoverEvent(hover_events[i].grid_cell, hover_events[i].entity)]
            /\ hover_events' = <<>>
       ELSE UNCHANGED <<click_events, hover_events>>
  /\ UNCHANGED <<panicked, spawner_options, commands>>

\* grid_cell_clicked: every unread click event queues its Commands; asking
\* Commands for an entity that is gone panics or is ignored, as the engine
\* version has it
grid_cell_clicked ==
  /\ GridRun("grid_cell_clicked")
  /\ LET queued == clicked_loop(click_events, spawner_options, blocks)
     IN /\ Len(blocks) + Spawns(commands) + Spawns(queued) <= MaxBlocks
        /\ commands' = commands \o queued
        /\ IF StaleEntity(click_events, spawner_options, blocks)
             THEN panicked' \in BOOLEAN
             ELSE panicked' = FALSE
  /\ click_events' = <<>>
  /\ UNCHANGED <<spawner_options, hover_events>>

\* the end of the frame: the queued Commands take effect
apply_system_buffers ==
  /\ ~panicked
  /\ ran = GridSystems
  /\ ran' = ran \cup {"apply_system_buffers"}
  /\ LET r == apply_commands(commands, blocks, spawned)
     IN blocks' = r.blocks /\ spawned' = r.spawned
  /\ commands' = <<>>
  /\ frames' = frames + 1
  /\ UNCHANGED <<panicked, spawner_options, hover_events, click_events>>
  /\ GridUnchanged

GridNext ==
  \/ GridBeginFrame
  \/ \E key \in Keys : player_hotkeys(key)
  \/ grid_cell_select_nothing
  \/ \E target \in HoverTargets(blocks, spawner_options) : grid_cell_select(target)
  \/ \E just_pressed \in BOOLEAN : grid_cell_hover(just_pressed)
  \/ grid_cell_clicked
  \/ apply_system_buffers

SpecGrid == GridInit /\ [][GridNext]_vars

\* =====================================================================
\* SpecClick: the same systems on a grid where two blocks stand already,
\* side by side and not selected, and the player is in Overview mode.
\* =====================================================================
ClickLayouts ==
  { <<spawn(t, "North", <<0, 0, 0>>) @@ [entity |-> 1, clicked |-> FALSE],
      spawn("Furnace", "North", <<0, 0, 1>>) @@ [entity |-> 2, clicked |-> FALSE]>> :
      t \in {"Furnace", "Debug"} }

ClickInit ==
  /\ InvIdle
  /\ overflow_checks \in BOOLEAN
  /\ panicked = FALSE
  /\ blocks \in ClickLayouts
  /\ scenario = "click"
  /\ ran = GridSystems \cup {"apply_system_buffers"}
  /\ now = 0
  /\ frames = 0
  /\ fired = 0
  /\ spawner_options = DefaultOptions
  /\ hover_events = <<>>
  /\ click_events = <<>>
  /\ commands = <<>>
  /\ spawned = 2
  /\ UiIdle
  /\ written = <<>>
  /\ time_delta = 0

SpecClick == ClickInit /\ [][GridNext]_vars

\* =====================================================================
\* SpecProcess: one Process component, as Process::default() leaves it or
\* armed with a reaction and part-way through its countdown, and the calls
\* of set_reaction on it.
\* =====================================================================
\* a recipe with a period other than 5 s
GOLD_TO_IRON == Reaction(<<ItemStack("Gold", 1)>>, <<ItemStack("Iron", 1)>>, 1000)
AssignableReactions == Reactions \cup {GOLD_TO_IRON}

\* a repeating timer of the given period somewhere in its countdown: nothing
\* elapsed yet, or part of the period, having just wrapped (finished) or not
TimersOf(duration) ==
  { [TimerNew(duration, "Repeating") EXCEPT
       !.elapsed = e, !.finished = (n > 0), !.times_finished_this_tick = n] :
      e \in {0, 1, duration \div 2, duration - 1}, n \in 0..2 }

Processes ==
  {ProcessDefault} \cup
  { [reaction |-> <<r>>, timer |-> t] : <<r, t>> \in
      { rt \in AssignableReactions \X UNION {TimersOf(r.duration) : r \in AssignableReactions} :
          rt[2].duration = rt[1].duration } }

ProcessInit ==
  /\ InvIdle
  /\ overflow_checks \in BOOLEAN
  /\ panicked = FALSE
  /\ blocks = <<>> /\ scenario = "process" /\ ran = {} /\ now = 0 /\ frames = 0 /\ fired = 0
  /\ GridIdle
  /\ process \in Processes
  /\ assigned = NoCall
  /\ ui_state = [selected_reaction |-> <<>>]
  /\ shadow = <<>>
  /\ written = <<>>
  /\ time_delta = 0

\* process.set_reaction(&reaction)
DoSetReaction(reaction) ==
  /\ steps < MaxOps
  /\ steps' = steps + 1
  /\ process' = set_reaction(process, reaction)
  /\ assigned' = [op |-> "set_reaction", reaction |-> reaction, process |-> process]
  /\ UNCHANGED <<source, destination, hist, only_push, buildVars, simVars, gridVars, ui_state, shadow, tickVars>>

ProcessNext == \E reaction \in AssignableReactions : DoSetReaction(reaction)

SpecProcess == ProcessInit /\ [][ProcessNext]_vars

\* =====================================================================
\* SpecSelect: the tick systems together with selection.  Two worlds start
\* out the same and get the same ticks: in `blocks` the player clicks blocks
\* in Overview mode (grid_cell_clicked moves BlockClicked, dev_ui shows the
\* selected block), in `shadow` the player never clicks.
\* =====================================================================
SelectSystems == Systems \cup {"grid_cell_clicked", "dev_ui"}

\* two Conveyors facing East, the head at (0,0,0) with stacks in its Output,
\* the second at (0,0,1) fed by it, and a Furnace armed with the registered
\* recipe; the entities are numbered as spawned and queried in any order
SelectLayouts ==
  { Ordered(<<[spawn("Conveyor", "East", <<0, 0, 0>>) EXCEPT !.output = LineHeld]
                @@ [entity |-> 1, clicked |-> FALSE],
              spawn("Conveyor", "East", <<0, 0, 1>>) @@ [entity |-> 2, clicked |-> FALSE],
              spawn("Furnace", "East", <<3, 0, 0>>)
                @@ [entity |-> 3, clicked |-> FALSE,
                    timer |-> set_reaction(ProcessDefault, PROCESS_IRON_TO_GOLD).timer]>>, p) :
      p \in Orders3 }

SelectInit ==
  /\ InvIdle
  /\ overflow_checks \in BOOLEAN
  /\ panicked = FALSE
  /\ scenario = "select"
  /\ blocks \in SelectLayouts
  /\ shadow = blocks
  /\ ran = SelectSystems \cup {"apply_system_buffers"}
  /\ now = 0
  /\ frames = 0
  /\ fired = 0
  /\ GridIdle
  /\ process = ProcessDefault
  /\ assigned = NoCall
  /\ ui_state \in {[selected_reaction |-> <<>>], [selected_reaction |-> <<PROCESS_IRON_TO_GOLD>>]}
  /\ written = <<>>
  /\ time_delta = 0

SelectUnchanged ==
  UNCHANGED <<invVars, overflow_checks, scenario, now, spawner_options, hover_events,
              click_events, spawned, process, assigned, ui_state, tickVars>>

SelectBeginFrame ==
  /\ ~panicked
  /\ ran = SelectSystems \cup {"apply_system_buffers"}
  /\ frames < MaxFrames
  /\ ran' = {}
  /\ UNCHANGED <<blocks, shadow, frames, fired, panicked, commands>>
  /\ SelectUnchanged

SelectRun(system) ==
  /\ ~panicked
  /\ system \notin ran
  /\ system \in SelectSystems
  /\ ran' = ran \cup {system}
  /\ UNCHANGED frames
  /\ SelectUnchanged

\* what a tick system makes of a world
TickResult(system, bs) ==
  CASE system = "furnace_system" ->
         LET r == furnace_loop(bs, 1, 0, FALSE) IN [blocks |-> r.blocks, ovf |-> r.ovf]
    [] system = "internal_conveyor_system" ->
         [blocks |-> internal_conveyor_loop(bs, 1), ovf |-> FALSE]
    [] system = "external_conveyor_system" -> external_conveyor_loop(bs, 1, FALSE)
    [] system = "grabber_system" -> grabber_loop(bs, 1, FALSE)

\* a tick system runs, in both worlds
select_tick(system) ==
  /\ system \in Systems
  /\ SelectRun(system)
  /\ LET r == TickResult(system, blocks)
         t == TickResult(system, shadow)
     IN IF overflow_checks /\ (r.ovf \/ t.ovf)
          THEN panicked' = TRUE /\ UNCHANGED <<blocks, shadow>>
          ELSE panicked' = FALSE /\ blocks' = r.blocks /\ shadow' = t.blocks
  /\ UNCHANGED <<fired, commands>>

\* grid_cell_clicked in Overview mode: the click event of this frame, if the
\* player clicked a block, queues the removal of BlockClicked from the
\* selected entities and its insertion on the clicked one
select_clicked(i) ==
  /\ SelectRun("grid_cell_clicked")
  /\ commands' = commands \o
        (IF i = 0 THEN <<>>
         ELSE clicked_event(HoverEvent(blocks[i].min, blocks[i].entity), spawner_options, blocks))
  /\ UNCHANGED <<blocks, shadow, fired, panicked>>

\* dev_ui over the selected blocks: one with a Process is given the panel's
\* selected_reaction when that is Some and differs from its own
RECURSIVE dev_ui_loop(_, _, _)
dev_ui_loop(bs, i, ui) ==
  IF i > Len(bs) THEN bs
  ELSE IF bs[i].clicked /\ bs[i].block_type = "Furnace"
          /\ ui.selected_reaction # <<>> /\ bs[i].reaction # ui.selected_reaction
    THEN LET pr == set_reaction([reaction |-> bs[i].reaction, timer |-> bs[i].timer],
                                ui.selected_reaction[1])
         IN dev_ui_loop([bs EXCEPT ![i].reaction = pr.reaction, ![i].timer = pr.timer], i + 1, ui)
  ELSE dev_ui_loop(bs, i + 1, ui)

dev_ui ==
  /\ SelectRun("dev_ui")
  /\ blocks' = dev_ui_loop(blocks, 1, ui_state)
  /\ shadow' = dev_ui_loop(shadow, 1, ui_state)
  /\ UNCHANGED <<fired, panicked, commands>>

\* the end of the frame: the queued Commands take effect
select_apply_system_buffers ==
  /\ ~panicked
  /\ ran = SelectSystems
  /\ ran' = ran \cup {"apply_system_buffers"}
  /\ blocks' = apply_commands(commands, blocks, spawned).blocks
  /\ commands' = <<>>
  /\ frames' = frames + 1
  /\ UNCHANGED <<shadow, fired, panicked>>
  /\ SelectUnchanged

SelectNext ==
  \/ SelectBeginFrame
  \/ \E system \in Systems : select_tick(system)
  \/ \E i \in 0..Len(blocks) : select_clicked(i)
  \/ dev_ui
  \/ select_apply_system_buffers

SpecSelect == SelectInit /\ [][SelectNext]_vars

\* =====================================================================
\* Properties of the inventory operations (checked under Spec)
\* =====================================================================
RECURSIVE Total(_, _)
\* the total of kind k in an inventory, as a mathematical integer
Total(items, k) ==
  IF items = <<>> THEN 0
  ELSE (IF Head(items).item_type = k THEN Head(items).quantity ELSE 0) + Total(Tail(items), k)

\* both inventories together
Both(src, dst, k) == Total(src, k) + Total(dst, k)

WithinCaps(items) ==
  \A i \in 1..Len(items) :
     items[i].quantity >= 0 /\ items[i].quantity <= quantity_limit(items[i].item_type)

NoZeroStack(items) == \A i \in 1..Len(items) : items[i].quantity # 0

\* a total grew by exactly the u32 quantity q.  A q from 2^31 on (held as a
\* negative) is more than any total of MaxStacks stacks can grow by.
RaisedBy(before, after, q) == q >= 0 /\ after - before = q

\* the sum of the quantities of kind k in a list of stacks of a recipe
Demand(stacks, k) == Total(stacks, k)

\* run(reaction) on input `input` is not a no-op
Fires(reaction, input) == input # <<>> /\ valid_input(reaction, input)

\* C1: Inventory::transfer conserves every kind's total over source and
\* destination; with enough in the source exactly the requested quantity of
\* the requested kind moves, the other kinds' totals stay as they were in both
\* inventories, and every destination stack stays within its kind's cap.
C1_TransferConserves ==
  (hist.op = "transfer" /\ ~panicked) =>
     LET k == hist.item.item_type
         q == hist.item.quantity
     IN /\ \A kk \in Kinds : Both(source, destination, kk) = Both(hist.src, hist.dst, kk)
        /\ Total(hist.src, k) >= q =>
             /\ Total(source, k) = Total(hist.src, k) - q
             /\ Total(destination, k) = Total(hist.dst, k) + q
        /\ \A kk \in Kinds \ {k} :
             /\ Total(source, kk) = Total(hist.src, kk)
             /\ Total(destination, kk) = Total(hist.dst, kk)
        /\ WithinCaps(destination)

\* a transfer that took part of the source's stock into a destination that
\* already held stacks
C1_Witness ==
  /\ hist.op = "transfer" /\ ~panicked
  /\ hist.item.quantity > 0
  /\ Total(hist.src, hist.item.item_type) > hist.item.quantity
  /\ hist.dst # <<>>
  /\ Total(destination, hist.item.item_type) = Total(hist.dst, hist.item.item_type) + hist.item.quantity

\* C2 as stated: Reaction::run leaves every kind's total over input and
\* output unchanged.
C2_RunConservesEveryKind ==
  (hist.op = "run" /\ ~panicked) =>
     \A k \in Kinds : Both(source, destination, k) = Both(hist.src, hist.dst, k)

\* C2 amended: a run that is a no-op conserves every kind's total; a run that
\* fires conserves the total of every kind the recipe neither demands nor
\* yields, and the registered recipe turns exactly 1 Iron into 1 Gold.
C2_RunConservesUntouchedKinds ==
  (hist.op = "run" /\ ~panicked) =>
     /\ ~Fires(hist.reaction, hist.src) =>
          \A k \in Kinds : Both(source, destination, k) = Both(hist.src, hist.dst, k)
     /\ \A k \in Kinds :
          (Demand(hist.reaction.input, k) = 0 /\ Demand(hist.reaction.output, k) = 0) =>
             Both(source, destination, k) = Both(hist.src, hist.dst, k)
     /\ (Fires(hist.reaction, hist.src) /\ hist.reaction = PROCESS_IRON_TO_GOLD) =>
          /\ Both(source, destination, "Iron") = Both(hist.src, hist.dst, "Iron") - 1
          /\ Both(source, destination, "Gold") = Both(hist.src, hist.dst, "Gold") + 1

\* the registered recipe fired on an input that also held another kind
C2_Witness ==
  /\ hist.op = "run" /\ ~panicked
  /\ hist.reaction = PROCESS_IRON_TO_GOLD
  /\ Fires(hist.reaction, hist.src)
  /\ Total(hist.src, "Hydrogen") > 0
  /\ Total(destination, "Gold") = Total(hist.dst, "Gold") + 1

\* C3: from an empty inventory, after any sequence of pushes every stack is
\* within its kind's cap, no stack has quantity 0, and the last push raised
\* the total of its kind by exactly the pushed quantity.
C3_PushKeepsCapsAndTotals ==
  (only_push /\ hist.op = "push") =>
     /\ WithinCaps(source) /\ WithinCaps(destination)
     /\ NoZeroStack(source) /\ NoZeroStack(destination)
     /\ RaisedBy(Both(hist.src, hist.dst, hist.item.item_type),
                 Both(source, destination, hist.item.item_type), hist.item.quantity)

\* C4: a transfer that the availability check rejects leaves both
\* inventories exactly as they were.
C4_RejectedTransferChangesNothing ==
  (hist.op = "transfer" /\ Total(hist.src, hist.item.item_type) < hist.item.quantity) =>
     source = hist.src /\ destination = hist.dst

\* a transfer asking for more than the source's (non-zero) stock of the kind
C4_Witness ==
  /\ hist.op = "transfer"
  /\ Total(hist.src, hist.item.item_type) > 0
  /\ Total(hist.src, hist.item.item_type) < hist.item.quantity
  /\ hist.dst # <<>>

\* C5: no inventory ever holds a stack of quantity 0.
C5_NoZeroQuantityStack == NoZeroStack(source) /\ NoZeroStack(destination)

\* C6: a run that fires lowers the input's total of every kind by exactly the
\* recipe's demand of that kind and raises the output's by its yield; a run
\* that does not fire changes nothing.
C6_RunAllOrNothing ==
  (hist.op = "run" /\ ~panicked) =>
     IF Fires(hist.reaction, hist.src)
       THEN \A k \in Kinds :
              /\ Total(source, k) = Total(hist.src, k) - Demand(hist.reaction.input, k)
              /\ Total(destination, k) = Total(hist.dst, k) + Demand(hist.reaction.output, k)
       ELSE source = hist.src /\ destination = hist.dst

\* a total (below 2^31) is at least the u32 quantity q
AtLeast(total, q) == q >= 0 /\ total >= q

\* C12: valid_input is false for an empty inventory, whatever the recipe
\* (one without required inputs included); for a non-empty one it is true
\* exactly when the inventory's total of each required stack's kind is at
\* least that stack's quantity, each stack judged on its own against the same
\* inventory; the inventories are left as they were.
C12_ValidInputChecksEachStackAlone ==
  hist.op = "valid_input" =>
     /\ hist.answer =
           (/\ hist.src # <<>>
            /\ \A i \in 1..Len(hist.reaction.input) :
                  AtLeast(Total(hist.src, hist.reaction.input[i].item_type),
                          hist.reaction.input[i].quantity))
     /\ source = hist.src /\ destination = hist.dst

\* the recipe demanding 2 + 2 Iron is accepted by an inventory holding less
\* than 4 Iron
C12_Witness ==
  /\ hist.op = "valid_input" /\ hist.reaction = DOUBLE_DEMAND
  /\ Total(hist.src, "Iron") \in 2..3
  /\ hist.answer

\* the recipe demanding nothing is refused by the empty inventory
C12_WitnessEmpty ==
  hist.op = "valid_input" /\ hist.reaction = NO_DEMAND /\ hist.src = <<>> /\ ~hist.answer

\* the inventory the last operation was called on, before and after it
Pre == IF hist.which = "source" THEN hist.src ELSE hist.dst
Post == IF hist.which = "source" THEN source ELSE destination

\* C13: push first tops up the existing stacks of the pushed kind, in list
\* order, each up to its cap, and only then appends new stacks: full ones and
\* a last one holding the rest.  The stacks of other kinds, and the order of
\* the stacks that were there, are as before.
C13_PushFillsThenAppends ==
  hist.op = "push" =>
    LET k   == hist.item.item_type
        cap == quantity_limit(k)
        n   == Len(Pre)
    IN /\ ~panicked
       /\ Len(Post) >= n
       /\ \A i \in 1..n :
            /\ Post[i].item_type = Pre[i].item_type
            /\ Pre[i].item_type # k => Post[i] = Pre[i]
            /\ Pre[i].item_type = k =>
                 /\ Post[i].quantity >= Pre[i].quantity
                 /\ Post[i].quantity <= cap \/ Post[i] = Pre[i]
                 \* a stack left below its cap ends the push
                 /\ Post[i].quantity < cap =>
                      /\ Len(Post) = n
                      /\ \A j \in (i + 1)..n : Post[j] = Pre[j]
       /\ \A i \in (n + 1)..Len(Post) :
            /\ Post[i].item_type = k
            /\ Post[i].quantity >= 1 /\ Post[i].quantity <= cap
            /\ i < Len(Post) => Post[i].quantity = cap
       /\ RaisedBy(Total(Pre, k), Total(Post, k), hist.item.quantity)

\* the stacks of kind k, and the stacks of the other kinds, in list order
OfKind(items, k) == SelectSeq(items, LAMBDA s : s.item_type = k)
NotOfKind(items, k) == SelectSeq(items, LAMBDA s : s.item_type # k)

C14_WitnessOverRemoval ==
  /\ hist.op = "remove"
  /\ Total(hist.src, hist.item.item_type) \in 1..(hist.item.quantity - 1)
  /\ Total(source, hist.item.item_type) = 0

\* C16: transfer_first (Inventory's, and Output's as the neighbour pull
\* without a filter calls it) on a non-empty source takes the first stack
\* away whole, leaves the rest of the source in its order, and raises the
\* destination's total of the stack's kind by the stack's quantity and of no
\* other kind; on an empty source neither inventory changes.
C16_TransferFirstMovesFirstStackWhole ==
  (hist.op = "transfer_first" \/ (hist.op = "neighbour" /\ hist.accepts = <<>>)) =>
     /\ ~panicked
     /\ IF hist.src = <<>>
          THEN source = hist.src /\ destination = hist.dst
          ELSE /\ source = Tail(hist.src)
               /\ \A k \in Kinds :
                    Total(destination, k) =
                      Total(hist.dst, k)
                        + (IF k = Head(hist.src).item_type THEN Head(hist.src).quantity ELSE 0)

\* the first stack differs from the last and is merged into stacks the
\* destination already has of its kind
C16_Witness ==
  /\ hist.op = "transfer_first" /\ Len(hist.src) >= 2
  /\ Head(hist.src) # hist.src[Len(hist.src)]
  /\ Head(hist.src).quantity > 0
  /\ Total(hist.dst, Head(hist.src).item_type) > 0
  /\ source = Tail(hist.src)

\* the same through Output::transfer_first
C16_WitnessOutput ==
  /\ hist.op = "neighbour" /\ hist.accepts = <<>> /\ Len(hist.src) >= 2
  /\ destination = Append(hist.dst, Head(hist.src))

\* nothing to take
C16_WitnessEmpty ==
  hist.op = "transfer_first" /\ hist.src = <<>> /\ hist.dst # <<>> /\ destination = hist.dst

\* C15: contains is true exactly when the quantities of all stacks of the
\* request's kind sum to at least the requested quantity, and it leaves the
\* inventory as it was.
C15_ContainsComparesTheTotal ==
  hist.op = "contains" =>
     /\ hist.answer = AtLeast(Total(hist.src, hist.item.item_type), hist.item.quantity)
     /\ source = hist.src /\ destination = hist.dst

\* more is asked than any single stack holds and the stacks together have it
C15_Witness ==
  /\ hist.op = "contains" /\ hist.answer
  /\ hist.item.quantity = DEFAULT_STATIC_LIMIT + 1
  /\ \A i \in 1..Len(hist.src) : hist.src[i].quantity <= DEFAULT_STATIC_LIMIT

\* C22: the filtered-or-first rule of the conveyor feed.  With an accepts
\* filter that the upstream Output satisfies (its total of the filter's kind
\* is at least the filter's quantity) exactly the filter's quantity of that
\* kind passes from the Output to the Input and nothing else; with a filter
\* that is not satisfied nothing moves; without a filter the Output's first
\* stack passes whole.  Every kind's total over the two is conserved.
C22_FilteredOrFirstTransfer ==
  hist.op = "neighbour" =>
     /\ \A k \in Kinds : Both(source, destination, k) = Both(hist.src, hist.dst, k)
     /\ IF hist.accepts # <<>>
          THEN LET a == hist.accepts[1]
               IN IF AtLeast(Total(hist.src, a.item_type), a.quantity)
                    THEN /\ Total(source, a.item_type) = Total(hist.src, a.item_type) - a.quantity
                         /\ Total(destination, a.item_type) = Total(hist.dst, a.item_type) + a.quantity
                         /\ \A k \in Kinds \ {a.item_type} :
                               /\ Total(source, k) = Total(hist.src, k)
                               /\ Total(destination, k) = Total(hist.dst, k)
                    ELSE source = hist.src /\ destination = hist.dst
          ELSE IF hist.src = <<>>
                 THEN source = hist.src /\ destination = hist.dst
                 ELSE source = Tail(hist.src) /\ destination = Append(hist.dst, Head(hist.src))

\* every quantity the model holds is a u32 below 2^31, within its kind's cap
StacksInRange == WithinCaps(source) /\ WithinCaps(destination) /\ WithinCaps(hist.src) /\ WithinCaps(hist.dst)

\* =====================================================================
\* Properties of the tick systems (checked under SpecSim)
\* =====================================================================
\* no system is part-way through the frame
FrameComplete == ran = Systems

\* the entity of the given type at the given cell
BlockAt(block_type, cell) ==
  blocks[CHOOSE i \in 1..Len(blocks) : blocks[i].block_type = block_type /\ blocks[i].min = cell]
\* the only entity of the given type
TheBlock(block_type) ==
  blocks[CHOOSE i \in 1..Len(blocks) : blocks[i].block_type = block_type]

\* C7: a Furnace holding the 5-second recipe, whose Input keeps satisfying
\* valid_input, has not fired while less than 5 seconds of frame deltas have
\* accumulated (4.999 s included, however the interval is split into frames),
\* and has fired exactly once when exactly 5 seconds have.
C7_FurnaceFiresOnceAtFiveSeconds ==
  scenario = "furnace" =>
    /\ now < IRON_TO_GOLD_MILLIS => fired = 0
    /\ now = IRON_TO_GOLD_MILLIS /\ FrameComplete => fired = 1

\* C9: in the chain (0,0,0) East, Conveyor (1,0,0) East, Storage with 10 Iron
\* next to it, after two frames (enough for one external feed and one
\* internal hop in either order) the Conveyor's Output holds exactly one Iron
\* stack and the Storage's Output is lower by that stack's quantity.
C9_ChainDeliversOneStack ==
  scenario = "chain" /\ frames = 2 /\ FrameComplete =>
    LET conveyor == BlockAt("Conveyor", <<1, 0, 0>>)
        storage  == TheBlock("Storage")
    IN /\ Len(conveyor.output) = 1
       /\ conveyor.output[1].item_type = "Iron"
       /\ Total(storage.output, "Iron") = 10 - conveyor.output[1].quantity

\* how many times grabber_system has run
GrabberRuns ==
  IF FrameComplete THEN frames
  ELSE frames + (IF "grabber_system" \in ran THEN 1 ELSE 0)

C11_OneIronBecomesOneGold ==
  scenario = "conversion" =>
    LET furnace == TheBlock("Furnace")
    IN /\ Total(furnace.output, "Gold") <= 1
       /\ Total(furnace.input, "Iron") + Total(furnace.output, "Gold") = 1
       /\ (now >= IRON_TO_GOLD_MILLIS /\ frames >= 1 /\ FrameComplete) =>
             /\ Total(furnace.input, "Iron") = 0
             /\ furnace.output = <<ItemStack("Gold", 1)>>
             /\ fired = 1

\* 5 seconds and more have passed in three ticks and the Gold is still one
C11_Witness ==
  /\ scenario = "conversion" /\ now >= IRON_TO_GOLD_MILLIS /\ frames = MaxFrames /\ FrameComplete
  /\ TheBlock("Furnace").input = <<>>
  /\ TheBlock("Furnace").output = <<ItemStack("Gold", 1)>>

\* C18: adjacency is symmetric under reversal.  reverse is an involution on
\* the six directions; the offset a Grabber facing D uses for its Input side
\* (ahead) is the offset a block facing reverse(D) uses for its upstream side
\* (behind), and the other way round; so whenever a block B stands in the
\* cell ahead of a Grabber A facing D, A stands in the cell that lies in the
\* reverse of D from B, which is the cell behind B for the facing D; and when
\* B carries an Input, B is the block the Grabber's Input side resolves to.
C18_AdjacencySymmetricUnderReversal ==
  /\ \A d \in Directions :
        /\ reverse(d) \in Directions
        /\ reverse(reverse(d)) = d
        /\ Ahead(d) = Behind(reverse(d))
        /\ Behind(d) = Ahead(reverse(d))
  /\ \A i, j \in 1..Len(blocks) :
        (blocks[i].block_type = "Grabber"
           /\ blocks[j].min = V3Add(blocks[i].min, Ahead(blocks[i].direction))) =>
          /\ blocks[i].min = V3Add(blocks[j].min, Ahead(reverse(blocks[i].direction)))
          /\ blocks[i].min = V3Add(blocks[j].min, Behind(blocks[i].direction))
          /\ blocks[j].has_input =>
                j = Find(blocks, 1, HasInput(blocks),
                         V3Add(blocks[i].min, Behind(reverse(blocks[i].direction))))

\* a Grabber facing Up has fed the Splitter in the cell ahead of it
C18_Witness ==
  /\ scenario = "relay" /\ GrabberRuns >= 1
  /\ TheBlock("Grabber").direction = "Up"
  /\ TheBlock("Splitter").min = V3Add(TheBlock("Grabber").min, Ahead("Up"))
  /\ TheBlock("Splitter").input # <<>>

\* how many times external_conveyor_system has run
ExternalRuns ==
  IF FrameComplete THEN frames
  ELSE frames + (IF "external_conveyor_system" \in ran THEN 1 ELSE 0)

\* C20: a block without its neighbour is skipped and the others are still
\* served in the same tick, whatever the query order.  In the line, the head
\* Conveyor has nothing upstream and the second one has the head, whose Output
\* is not empty: once external_conveyor_system has run, the second has taken
\* from the head.  With the stray Grabber next to the relay, once
\* grabber_system has run the relay's Grabber has fed the Splitter.
C20_MissingNeighbourSkipsOnlyThatBlock ==
  /\ (scenario = "line" /\ ExternalRuns >= 1) =>
        BlockAt("Conveyor", <<0, 0, 0>>).output # LineHeld
  /\ (scenario = "stray" /\ GrabberRuns >= 1) =>
        TheBlock("Splitter").input # <<>>

\* the entity is the first Conveyor the queries hand out
FirstConveyor(cell) ==
  \E i \in 1..Len(blocks) :
     /\ blocks[i].block_type = "Conveyor" /\ blocks[i].min = cell
     /\ \A j \in 1..(i - 1) : blocks[j].block_type # "Conveyor"

\* C21: the external conveyor feed pulls from the block in the cell behind
\* the Conveyor whenever that block carries an Output, whatever its kind, and
\* from no other cell.  A Conveyor that is served (the first the query hands
\* out) with 10 Iron in the Output of the block behind it holds those 10 Iron
\* once external_conveyor_system has run, the block behind no longer does,
\* and the Output of the Storage ahead of it is as it was.
C21_FeedPullsFromAnyOutputBehind ==
  (scenario = "feed" /\ ExternalRuns >= 1 /\ FirstConveyor(<<0, 0, 0>>)) =>
    LET conveyor == BlockAt("Conveyor", <<0, 0, 0>>)
    IN /\ Total(conveyor.input, "Iron") + Total(conveyor.output, "Iron") = 10
       /\ \A i \in 1..Len(blocks) :
             blocks[i].min = V3Add(<<0, 0, 0>>, Behind(conveyor.direction)) =>
                blocks[i].output = <<>>
       /\ \A i \in 1..Len(blocks) :
             blocks[i].min = V3Add(<<0, 0, 0>>, Ahead(conveyor.direction)) =>
                blocks[i].output = DecoyHeld

\* the item kinds the layouts hold
SimKinds == {"Iron", "Gold", "Copper"}

\* the block a Grabber delivers to and the block it takes from, 0 when missing
InputSide(bs, g) == Find(bs, 1, HasInput(bs), V3Add(bs[g].min, Ahead(bs[g].direction)))
OutputSide(bs, g) == Find(bs, 1, HasOutput(bs), V3Add(bs[g].min, Behind(bs[g].direction)))
\* the Grabbers that have both sides
Relaying(bs) ==
  {g \in 1..Len(bs) : bs[g].block_type = "Grabber" /\ InputSide(bs, g) # 0 /\ OutputSide(bs, g) # 0}

\* no Grabber carries an Input or an Output, so none holds an item
GrabbersHoldNothing(bs) ==
  \A g \in 1..Len(bs) :
     bs[g].block_type = "Grabber" =>
        ~bs[g].has_input /\ ~bs[g].has_output /\ bs[g].input = <<>> /\ bs[g].output = <<>>

\* what a run of grabber_system may do to the world
GrabberRelays ==
  /\ Len(blocks') = Len(blocks)
  /\ \A i \in 1..Len(blocks) :
        /\ blocks'[i] = [blocks[i] EXCEPT !.input = blocks'[i].input, !.output = blocks'[i].output]
        /\ blocks'[i].input # blocks[i].input =>
              \E g \in Relaying(blocks) : i = InputSide(blocks, g)
        /\ blocks'[i].output # blocks[i].output =>
              \E g \in Relaying(blocks) : i = OutputSide(blocks, g)
  /\ \A g \in Relaying(blocks) : \A k \in SimKinds :
        LET inp == InputSide(blocks, g)
            o   == OutputSide(blocks, g)
        IN /\ Total(blocks'[o].output, k) + Total(blocks'[inp].input, k)
                = Total(blocks[o].output, k) + Total(blocks[inp].input, k)
           /\ Total(blocks'[o].output, k) <= Total(blocks[o].output, k)
           /\ Total(blocks'[inp].input, k) >= Total(blocks[inp].input, k)
  /\ Relaying(blocks) = {} => blocks' = blocks

\* C23: a Grabber is a pure relay.  A run of grabber_system changes nothing
\* but the Output of the block behind a Grabber and the Input of the block
\* ahead of it, and only when both are there with those roles; what leaves
\* the one enters the other, every kind's total over the two being conserved;
\* with a side missing or without its role no inventory changes; and no
\* Grabber ever holds an item.
C23_GrabberIsAPureRelay ==
  [][ /\ GrabbersHoldNothing(blocks) /\ GrabbersHoldNothing(blocks')
      /\ ("grabber_system" \notin ran /\ "grabber_system" \in ran') => GrabberRelays ]_vars

\* the Grabber has passed the first of two stacks on: 2 Copper are in the
\* Splitter's Input, 3 Copper are left in the Storage's Output
C23_Witness ==
  /\ scenario = "relay" /\ GrabberRuns = 1
  /\ TheBlock("Splitter").input = <<ItemStack("Copper", 2)>>
  /\ TheBlock("Storage").output = <<ItemStack("Copper", 3)>>

\* grabber_system has run for a Grabber with a Storage behind it and a block
\* without an Input ahead of it
C23_WitnessNoRole ==
  /\ scenario = "half" /\ GrabberRuns >= 1 /\ Len(blocks) = 3
  /\ blocks[3].block_type = "Debug"
  /\ blocks[2].output = <<ItemStack("Copper", 5)>>

\* the system that drives a block of the kind from its own inventories
OwnSystem(block_type) ==
  CASE block_type = "Furnace"  -> {"furnace_system"}
    [] block_type = "Conveyor" -> {"internal_conveyor_system"}
    [] OTHER                   -> {}

\* C24 as stated: within a tick, each Input and each Output inventory of every
\* block is written by at most one of the four systems.
C24_SingleWriterPerTick ==
  \A i \in DOMAIN written :
     Cardinality(written[i].input) <= 1 /\ Cardinality(written[i].output) <= 1

\* C24 as the code has it: within a tick an inventory is written only by the
\* system of its block's own kind and by the transfer systems that serve the
\* block, and these may both write it in the same tick.  An Input is written
\* by the block's own system, by external_conveyor_system when the block is a
\* Conveyor (its feed) and by grabber_system; an Output by the block's own
\* system and by external_conveyor_system and grabber_system (the takers).
\* No other system writes it; a block without the role is never written.
C24_WrittenByOwnerAndTransfersOnly ==
  \A i \in DOMAIN written :
     /\ written[i].input \subseteq
           OwnSystem(blocks[i].block_type) \cup {"grabber_system"} \cup
           (IF blocks[i].block_type = "Conveyor" THEN {"external_conveyor_system"} ELSE {})
     /\ written[i].output \subseteq
           OwnSystem(blocks[i].block_type) \cup {"external_conveyor_system", "grabber_system"}
     /\ ~blocks[i].has_input => written[i].input = {}
     /\ ~blocks[i].has_output => written[i].output = {}

\* in one tick a Conveyor's Input was fed by external_conveyor_system and
\* popped by internal_conveyor_system
C24_Witness ==
  /\ scenario = "line"
  /\ \E i \in DOMAIN written :
        /\ blocks[i].block_type = "Conveyor"
        /\ written[i].input = {"external_conveyor_system", "internal_conveyor_system"}

\* a tick with the systems in the order furnace, internal hop, external
\* feed, grabber
TickInOrder(bs) ==
  grabber_loop(
    external_conveyor_loop(
      internal_conveyor_loop(furnace_loop(bs, 1, 0, FALSE).blocks, 1), 1, FALSE).blocks,
    1, FALSE).blocks

\* the line as it was placed, in the query order of `bs`
LineAsPlaced(bs) ==
  [i \in 1..Len(bs) |->
     [spawn("Conveyor", "East", bs[i].min) EXCEPT
        !.output = IF bs[i].min = <<0, 0, 0>> THEN LineHeld ELSE <<>>]]

\* C25: within every tick the four systems run once each and always in the
\* order furnace_system, internal_conveyor_system, external_conveyor_system,
\* grabber_system, so that the state after a tick is a function of the state
\* before it: at any moment the systems that have run are an initial part of
\* that order, and the line of Conveyors is, after its first tick, what the
\* four systems in that order make of the line as placed.
C25_SystemsRunInFixedOrder ==
  ran \subseteq Systems =>
    /\ ran \in { {},
                 {"furnace_system"},
                 {"furnace_system", "internal_conveyor_system"},
                 {"furnace_system", "internal_conveyor_system", "external_conveyor_system"},
                 Systems }
    /\ (scenario = "line" /\ frames = 1 /\ FrameComplete) =>
          blocks = TickInOrder(LineAsPlaced(blocks))

\* the frame that is running carried Time over a multiple of the period
PeriodBoundaryCrossed ==
  (now - time_delta) \div IRON_TO_GOLD_MILLIS < now \div IRON_TO_GOLD_MILLIS

\* C26: a Furnace's timer advances on every tick whether or not its inputs
\* are valid, and only the firing is suppressed: when the Iron reaches a
\* Furnace that has been without inputs for a full period or more, the
\* reaction fires in a tick that carries Time over a period boundary, not
\* before.
C26_FiringWaitsForPeriodBoundary ==
  [][ (scenario = "late" /\ fired' > fired /\ now - time_delta >= IRON_TO_GOLD_MILLIS)
        => PeriodBoundaryCrossed ]_vars

\* what one hop makes of the block `before`
Hopped(before, after) ==
  IF before.block_type = "Conveyor" /\ before.input # <<>>
    THEN /\ after.input = SubSeq(before.input, 1, Len(before.input) - 1)
         /\ after.output = Append(before.output, before.input[Len(before.input)])
         /\ Len(after.input) + Len(after.output) = Len(before.input) + Len(before.output)
         /\ \A k \in SimKinds :
               Total(after.input, k) + Total(after.output, k)
                 = Total(before.input, k) + Total(before.output, k)
         /\ after = [before EXCEPT !.input = after.input, !.output = after.output]
    ELSE after = before

\* C27: in a run of internal_conveyor_system every Conveyor with a non-empty
\* Input loses the last stack of its Input to the end of its own Output and
\* nothing else: the other Input stacks and the Output stacks keep their
\* order, each kind's total over Input and Output is the same; a Conveyor
\* with an empty Input, and every block that is not a Conveyor, is unchanged.
C27_HopMovesLastInputStack ==
  [][ ("internal_conveyor_system" \notin ran /\ "internal_conveyor_system" \in ran') =>
        /\ Len(blocks') = Len(blocks)
        /\ \A i \in 1..Len(blocks) : Hopped(blocks[i], blocks'[i]) ]_vars

\* the second Conveyor of the line held Iron below Gold in its Input and the
\* hop has taken the Gold
C27_Witness ==
  /\ scenario = "line" /\ "internal_conveyor_system" \in ran
  /\ "internal_conveyor_system" \in written[CHOOSE i \in 1..3 : blocks[i].min = <<0, 0, 1>>].output
  /\ BlockAt("Conveyor", <<0, 0, 1>>).input = <<ItemStack("Iron", 3)>>
  /\ BlockAt("Conveyor", <<0, 0, 1>>).output = <<ItemStack("Gold", 1)>>

\* C28: a block is the neighbour in a direction whenever the cell just
\* outside the querying block's face in that direction lies inside its
\* bounding box.  For every Grabber, a block with an Input whose box holds
\* the cell ahead is the one its Input side resolves to, and a block with an
\* Output whose box holds the cell behind is the one its Output side resolves
\* to.  So a Grabber next to the second cell of a Splitter has, once
\* grabber_system has run, handed the Storage's 10 Iron to it.
C28_NeighbourByBoundingBox ==
  /\ \A g, j \in 1..Len(blocks) :
        /\ (blocks[g].block_type = "Grabber" /\ blocks[j].has_input
              /\ V3Add(blocks[g].min, Ahead(blocks[g].direction)) \in Cells(blocks[j]))
             => InputSide(blocks, g) = j
        /\ (blocks[g].block_type = "Grabber" /\ blocks[j].has_output
              /\ V3Add(blocks[g].min, Behind(blocks[g].direction)) \in Cells(blocks[j]))
             => OutputSide(blocks, g) = j
  /\ (scenario = "span" /\ GrabberRuns >= 1) =>
        /\ TheBlock("Splitter").input = <<ItemStack("Iron", 10)>>
        /\ TheBlock("Storage").output = <<>>

\* the Conveyor at `cell` has the stack in its Output
InOutput(cell, stack) ==
  \E k \in 1..Len(BlockAt("Conveyor", cell).output) :
     BlockAt("Conveyor", cell).output[k] = stack

\* C29: in the line of Conveyors facing East, with ticks repeating for ever,
\* a stack in the Output of a Conveyor is eventually in the Output of the
\* next Conveyor downstream, whatever the order in which the query hands out
\* the Conveyors.
C29_StackReachesNextConveyor ==
  \A z \in {0, 1} : \A k \in 1..Len(LineHeld) :
     InOutput(<<0, 0, z>>, LineHeld[k]) ~> InOutput(<<0, 0, z + 1>>, LineHeld[k])

\* C30: at most one block is selected at any time: whatever clicks the
\* player has made in Overview mode, several in one frame included, at most
\* one block carries BlockClicked.
C30_AtMostOneBlockClicked ==
  scenario = "click" =>
    Cardinality({i \in 1..Len(blocks) : blocks[i].clicked}) <= 1

\* =====================================================================
\* Properties of a Process (checked under SpecProcess)
\* =====================================================================
\* C17: set_reaction(r) leaves the Process with r as its reaction and with a
\* fresh repeating countdown of period r.duration, nothing elapsed and not
\* finished, whatever reaction and progress it had before.
C17_SetReactionRestartsTheTimer ==
  assigned.op = "set_reaction" =>
     /\ process.reaction = <<assigned.reaction>>
     /\ process.timer.duration = assigned.reaction.duration
     /\ process.timer.mode = "Repeating"
     /\ process.timer.elapsed = 0
     /\ ~process.timer.finished
     /\ process.timer.times_finished_this_tick = 0

\* the Process was armed with a recipe of another period and part-way
\* through its countdown
C17_Witness ==
  /\ assigned.op = "set_reaction"
  /\ assigned.process.reaction # <<>>
  /\ assigned.process.reaction # <<assigned.reaction>>
  /\ assigned.process.timer.duration # assigned.reaction.duration
  /\ assigned.process.timer.elapsed > 0
  /\ process.timer.elapsed = 0

\* =====================================================================
\* Properties of selection (checked under SpecSelect)
\* =====================================================================
\* what the simulation keeps of a block
Simulated(b) ==
  IF b.block_type = "Furnace" THEN <<b.input, b.output, b.reaction, b.timer>>
  ELSE <<b.input, b.output>>

\* C19: selecting and deselecting blocks does not affect the simulation.
\* After the same ticks every block has the same inventories, reaction and
\* timer in the world where the player clicked blocks as in the world where
\* the player never clicked.
C19_SelectionDoesNotAffectSimulation ==
  scenario = "select" =>
    \A i \in 1..Len(blocks) :
       Simulated(blocks[i]) = Simulated(shadow[EntityIndex(shadow, blocks[i].entity)])

\* =====================================================================
\* Properties of placement (checked under SpecGrid)
\* =====================================================================
\* C8: whatever placement intents were handled (several click events in one
\* frame, spawns still deferred), no two blocks occupy the same grid cell.
\* (The cell of a block is the one it was placed into, its min.)
C8_NoTwoBlocksShareACell ==
  \A i, j \in 1..Len(blocks) : i # j => blocks[i].min # blocks[j].min

====
